---- MODULE Spec2Model ----
(***************************************************************************)
(* The element store of excalidecks (src/canvas/element-store.ts), the     *)
(* broadcaster that pushes its messages to the viewers                     *)
(* (src/canvas/websocket.ts), the REST routes (src/canvas/express-app.ts), *)
(* the tool handler (src/mcp/tools.ts) and the inactivity timer and        *)
(* shutdown of the process (src/index.ts) as a state machine.  A           *)
(* JavaScript object is a function whose domain is the set of keys it      *)
(* carries, so "the field is absent" is "the key is not in the domain";    *)
(* the store's Map is a function from the keys it holds to the stored      *)
(* objects.  Every action is one whole call or handler: the mutation and   *)
(* the synchronous notify() that ends it, listeners and broadcast          *)
(* included.                                                               *)
(***************************************************************************)
EXTENDS Integers, Sequences, FiniteSets, Bags, TLC

VARIABLES
    elements,   \* ElementStore.elements : Map<string, ServerElement>
    now,        \* the wall clock read by Date.now() / new Date()
    emitted,    \* the messages notify() was called with during the last call
    last,       \* the last call: its name, input, the keys it wrote, its return
                \* value, the error it threw ("" for none), the size before it
    nUpdates,   \* per stored id: successful update() calls since it was inserted
    listeners,  \* ElementStore.listeners : ChangeListener[]
    calls,      \* the listener invocations of the last call, in order
    groups,     \* ElementStore.sceneState.groups : Map<string, string[]>
    wss,        \* websocket.ts: whether the WebSocketServer exists (wss !== null)
    clients,    \* websocket.ts: clients : Set<WebSocket>
    readyState, \* per viewer connection: the readyState of its WebSocket
    sent,       \* per viewer connection: the data handed to ws.send(), in order
    inactivityTimer, \* index.ts: the handle of the last setTimeout, 0 for null
    timeouts,   \* the pending setTimeout callbacks: handle -> time left to run
    proc,       \* index.ts: "loaded" before it starts, "running" once it listens,
                \* then the await shutdown() has reached, then the exit
    idle        \* the time since onActivity was last called, up to one period

vars == <<elements, now, emitted, last, nUpdates, listeners, calls, groups,
          wss, clients, readyState, sent, inactivityTimer, timeouts, proc, idle>>

\* the state of the process around the store: its timer and its shutdown
processVars == <<inactivityTimer, timeouts, proc, idle>>

\* the state of the broadcaster's connections
viewerVars == <<wss, clients, readyState>>

----------------------------------------------------------------------------
\* Bounds of the model

MaxBatch == 2      \* longest item list handed to batchCreate / sync / load
MaxUpdates == 2    \* update() calls explored per element
MaxClock == 1      \* clock ticks explored
MaxSent == 4       \* messages explored per viewer connection
MaxListeners == 2  \* onChange registrations explored

----------------------------------------------------------------------------
\* JavaScript objects

EmptyObject == [k \in {} |-> ""]

Has(o, k) == k \in DOMAIN o

\* { ...a, ...b }
Spread(a, b) ==
    [k \in (DOMAIN a) \cup (DOMAIN b) |-> IF k \in DOMAIN b THEN b[k] ELSE a[k]]

\* const { k, ...rest } = o
Rest(o, k) == [f \in (DOMAIN o) \ {k} |-> o[f]]

\* `o.k` used as a condition or on the left of ||, for a string field:
\* undefined and "" are falsy
TruthyString(o, k) == Has(o, k) /\ o[k] # ""

----------------------------------------------------------------------------
\* Map<string, ServerElement>

EmptyMap == [k \in {} |-> EmptyObject]

MapHas(m, k) == k \in DOMAIN m

\* a set() that keeps the value of a key the map already holds
MapSetIfAbsent(m, k, v) ==
    [j \in (DOMAIN m) \cup {k} |-> IF j \in DOMAIN m THEN m[j] ELSE v]

MapSet(m, k, v) == [j \in (DOMAIN m) \cup {k} |-> IF j = k THEN v ELSE m[j]]

\* a delete() that empties the map
MapDeleteAll(m, k) == [j \in {} |-> m[j]]

MapDelete(m, k) == [j \in (DOMAIN m) \ {k} |-> m[j]]

MapSize(m) == Cardinality(DOMAIN m)

\* Array.from(m.values()), as the bag of the stored objects (two keys may hold
\* equal objects; the iteration order is not modelled)
RECURSIVE BagOfValues(_, _)
BagOfValues(m, keys) ==
    IF keys = {} THEN EmptyBag
    ELSE LET k == CHOOSE j \in keys : TRUE
         IN  BagOfValues(m, keys \ {k}) (+) SetToBag({m[k]})

RECURSIVE BagOfSeq(_)
BagOfSeq(s) ==
    IF s = <<>> THEN EmptyBag
    ELSE BagOfSeq(Tail(s)) (+) SetToBag({Head(s)})

----------------------------------------------------------------------------
\* ElementStore.notify, the listeners, and the broadcaster's listener

\* the listeners: "broadcast" is the listener initWebSocket registers, "f" and
\* "g" return normally, "bad" throws when it is called
ListenerThrows(l) == l = "bad"

Min(S) == CHOOSE n \in S : \A m \in S : n <= m

\* notify(message) for each message of msgs in turn, each calling the listeners
\* in the order of the array, were no listener to throw
notifyAll(ls, msgs) ==
    [n \in 1..(Len(msgs) * Len(ls)) |->
        [listener |-> ls[((n - 1) % Len(ls)) + 1],
         message |-> msgs[((n - 1) \div Len(ls)) + 1]]]

\* a listener's exception leaves the for loop of notify() and the store call
notifyThrows(ls, msgs) == msgs # <<>> /\ \E i \in 1..Len(ls) : ListenerThrows(ls[i])

\* the listener invocations of one store call, in order: they end with the
\* first listener that throws
notifyCalls(ls, msgs) ==
    LET all == notifyAll(ls, msgs)
        thrown == {n \in 1..Len(all) : ListenerThrows(all[n].listener)}
    IN  IF thrown = {} THEN all ELSE SubSeq(all, 1, Min(thrown))

\* the messages notify() is reached with
notified(ls, msgs) == IF notifyThrows(ls, msgs) THEN SubSeq(msgs, 1, 1) ELSE msgs

\* JSON.stringify(message): the text a viewer parses back; every value of the
\* model is a JSON value
stringify(message) == [json |-> message]

\* a broadcast that puts the message before what the viewer was sent earlier
broadcastPrepend(s, message) ==
    [v \in DOMAIN s |->
        IF v \in clients /\ readyState[v] = "OPEN"
        THEN <<stringify(message)>> \o s[v]
        ELSE s[v]]

\* a broadcast that does not look at the readyState of a client
broadcastAnyState(s, message) ==
    [v \in DOMAIN s |->
        IF v \in clients THEN Append(s[v], stringify(message)) ELSE s[v]]

\* a broadcast that sends the message twice
broadcastTwice(s, message) ==
    [v \in DOMAIN s |->
        IF v \in clients /\ readyState[v] = "OPEN"
        THEN s[v] \o <<stringify(message), stringify(message)>>
        ELSE s[v]]

\* broadcast(message): client.send(data) for every client that is OPEN
broadcast(s, message) ==
    [v \in DOMAIN s |->
        IF v \in clients /\ readyState[v] = "OPEN"
        THEN Append(s[v], stringify(message))
        ELSE s[v]]

\* what the invocations cs[from..] of the listeners hand to ws.send()
RECURSIVE deliver(_, _, _)
deliver(s, cs, from) ==
    IF from > Len(cs) THEN s
    ELSE deliver(IF cs[from].listener = "broadcast"
                 THEN broadcast(s, cs[from].message) ELSE s,
                 cs, from + 1)

ListenerError == "listener threw"

\* a store that takes its write back when a listener throws
committedUnlessThrown(before, after, ls, msgs) ==
    IF notifyThrows(ls, msgs) THEN before ELSE after

\* the Map after a call that wrote it and then reached notify() with msgs: the
\* write comes before this.notify(...), and nothing undoes it when a listener
\* throws
committed(before, after, ls, msgs) == after

\* the end of a store call that reaches notify() with msgs: the listeners run
\* inside the call, and an exception of a listener takes the place of the
\* call's return value (rec is the call as it ends when no listener throws)
Notify(rec, msgs) ==
    LET cs == notifyCalls(listeners, msgs)
        out == deliver(sent, cs, 1)
    IN  /\ \A v \in DOMAIN out : Len(out[v]) <= MaxSent
        /\ emitted' = notified(listeners, msgs)
        /\ calls' = cs
        /\ sent' = out
        /\ last' = IF notifyThrows(listeners, msgs)
                   THEN [rec EXCEPT !.ret = EmptyObject, !.err = ListenerError]
                   ELSE rec

\* what a store call leaves alone besides the clock
storeFrame == <<listeners, groups, wss, clients, readyState>>

----------------------------------------------------------------------------
\* The inactivity timer (index.ts).  Time is counted in halves of the
\* inactivity period of five minutes.

INACTIVITY_TIMEOUT_MS == 2

\* no setTimeout callback is pending
NoTimeouts == [h \in {} |-> 0]

\* a clearTimeout() that cancels nothing
clearTimeoutNone(ts, h) == ts

\* clearTimeout(h): the callback of h will not run; no effect when it has run
\* or was cleared before
clearTimeout(ts, h) == [k \in DOMAIN ts \ {h} |-> ts[k]]

\* setTimeout(callback, delay): a handle no pending timeout has
setTimeout(ts, delay) ==
    LET h == Min({n \in 1..(Cardinality(DOMAIN ts) + 1) : n \notin DOMAIN ts})
    IN  [handle |-> h, timeouts |-> [k \in DOMAIN ts \cup {h} |->
                                        IF k = h THEN delay ELSE ts[k]]]

\* a reset that arms a new timeout and leaves the one before it pending
resetInactivityTimerNoClear(timer, ts) ==
    [inactivityTimer |-> setTimeout(ts, INACTIVITY_TIMEOUT_MS).handle,
     timeouts |-> setTimeout(ts, INACTIVITY_TIMEOUT_MS).timeouts]

\* resetInactivityTimer(): if (inactivityTimer) clearTimeout(inactivityTimer);
\* inactivityTimer = setTimeout(() => shutdown(), INACTIVITY_TIMEOUT_MS)
resetInactivityTimer(timer, ts) ==
    LET armed == setTimeout(IF timer # 0 THEN clearTimeout(ts, timer) ELSE ts,
                            INACTIVITY_TIMEOUT_MS)
    IN  [inactivityTimer |-> armed.handle, timeouts |-> armed.timeouts]

\* process.exit(code) ends the process: nothing runs after it
Exited(code) == "exit(" \o ToString(code) \o ")"

\* the process has not exited
Alive == proc \in {"loaded", "running", "closeWebSocket", "httpClose"}

\* onActivity(), the callback index.ts hands to the three surfaces
OnActivity ==
    /\ inactivityTimer' = resetInactivityTimer(inactivityTimer, timeouts).inactivityTimer
    /\ timeouts' = resetInactivityTimer(inactivityTimer, timeouts).timeouts
    /\ idle' = 0
    /\ UNCHANGED proc

\* the surface a call of the store comes through: the middleware of the
\* express app and the handler of the tool calls begin with onActivity(); the
\* store of a process that index.ts has not started has no timer, and a
\* process that has exited serves nothing
Surface ==
    /\ Alive
    /\ IF proc = "loaded" THEN UNCHANGED processVars ELSE OnActivity

----------------------------------------------------------------------------
\* Identifiers

\* Math.random().toString(36).substring(2)
Rand == {"r", "s"}

\* Date.now().toString(36) + Math.random().toString(36).substring(2)
generateId(t, r) == ToString(t) \o r

----------------------------------------------------------------------------
\* convertTextToLabel

\* a conversion that misses the test for the text type
convertTextToLabelAnyType(element) ==
    IF TruthyString(element, "text")
    THEN Spread(Rest(element, "text"), [label |-> [text |-> element["text"]]])
    ELSE element

convertTextToLabel(element) ==
    IF TruthyString(element, "text")
    THEN IF element["type"] = "text"
         THEN element
         ELSE Spread(Rest(element, "text"), [label |-> [text |-> element["text"]]])
    ELSE element

----------------------------------------------------------------------------
\* ElementStore reads

getAll == BagOfValues(elements, DOMAIN elements)

getById(id) == IF MapHas(elements, id) THEN elements[id] ELSE EmptyObject

size == MapSize(elements)

has(id) == MapHas(elements, id)

----------------------------------------------------------------------------
\* ElementStore.create

\* const id = data.id || generateId()
createId(data, t, r) == IF TruthyString(data, "id") THEN data["id"] ELSE generateId(t, r)

\* { id, ...data, createdAt, updatedAt, version: 1 }; the two new Date() reads
\* of one call are taken as one reading t of the clock
createElement(data, id, t) ==
    Spread(Spread([id |-> id], data),
           [createdAt |-> t, updatedAt |-> t, version |-> 1])

Create(Inputs) ==
    \E data \in Inputs, r \in Rand :
        LET id == createId(data, now, r)
            stored == convertTextToLabel(createElement(data, id, now))
        IN  /\ elements' = committed(elements, MapSet(elements, id, stored), listeners,
                                     <<[type |-> "element_created", element |-> stored]>>)
            /\ Notify([op |-> "create", data |-> data, id |-> id, ids |-> <<id>>,
                       ret |-> stored, err |-> "", beforeCount |-> MapSize(elements)],
                      <<[type |-> "element_created", element |-> stored]>>)
            /\ nUpdates' = MapSet(nUpdates, id, 0)
            /\ UNCHANGED <<now, storeFrame>>
            /\ Surface

----------------------------------------------------------------------------
\* ElementStore.update

\* existing.version || 0
versionOrZero(o) == IF Has(o, "version") THEN o["version"] ELSE 0

\* an update() that forgets to set the version
updateElementNoVersion(existing, updates, id, t) ==
    Spread(Spread(existing, updates), [id |-> id, updatedAt |-> t])

\* an update() that lets the caller's fields win over the new version
updateElementCallerVersion(existing, updates, id, t) ==
    Spread(Spread(existing, [updatedAt |-> t, version |-> versionOrZero(existing) + 1]),
           Spread(updates, [id |-> id]))

\* { ...existing, ...updates, id, updatedAt, version: (existing.version || 0) + 1 }
updateElement(existing, updates, id, t) ==
    Spread(Spread(existing, updates),
           [id |-> id, updatedAt |-> t, version |-> versionOrZero(existing) + 1])

NotFound(id) == "Element with ID " \o id \o " not found"

\* if (!existing) throw
updateNotFound(m, id) == ~MapHas(m, id)

Update(Ids, Payloads) ==
    \E id \in Ids, updates \in Payloads :
        IF updateNotFound(elements, id)
        THEN /\ Notify([op |-> "update", data |-> updates, id |-> id, ids |-> <<>>,
                         ret |-> EmptyObject, err |-> NotFound(id),
                         beforeCount |-> MapSize(elements)], <<>>)
             /\ UNCHANGED <<elements, now, nUpdates, storeFrame>>
             /\ Surface
        ELSE /\ nUpdates[id] < MaxUpdates
             /\ LET stored == convertTextToLabel(
                                  updateElement(elements[id], updates, id, now))
                IN  /\ elements' = committed(elements, MapSet(elements, id, stored),
                                             listeners,
                                             <<[type |-> "element_updated",
                                                element |-> stored]>>)
                    /\ Notify([op |-> "update", data |-> updates, id |-> id,
                                ids |-> <<id>>, ret |-> stored, err |-> "",
                                beforeCount |-> MapSize(elements)],
                              <<[type |-> "element_updated", element |-> stored]>>)
             /\ nUpdates' = [nUpdates EXCEPT ![id] = @ + 1]
             /\ UNCHANGED <<now, storeFrame>>
             /\ Surface

----------------------------------------------------------------------------
\* ElementStore.delete

\* a delete() that misses the presence check
deleteNotFoundNever(m, id) == FALSE

\* if (!this.elements.has(id)) throw
deleteNotFound(m, id) == ~MapHas(m, id)

Delete(Ids) ==
    \E id \in Ids :
        IF deleteNotFound(elements, id)
        THEN /\ Notify([op |-> "delete", data |-> EmptyObject, id |-> id, ids |-> <<>>,
                         ret |-> EmptyObject, err |-> NotFound(id),
                         beforeCount |-> MapSize(elements)], <<>>)
             /\ UNCHANGED <<elements, now, nUpdates, storeFrame>>
             /\ Surface
        ELSE /\ elements' = committed(elements, MapDelete(elements, id), listeners,
                                      <<[type |-> "element_deleted", elementId |-> id]>>)
             /\ Notify([op |-> "delete", data |-> EmptyObject, id |-> id, ids |-> <<id>>,
                         ret |-> [deleted |-> TRUE], err |-> "",
                         beforeCount |-> MapSize(elements)],
                       <<[type |-> "element_deleted", elementId |-> id]>>)
             /\ nUpdates' = MapDelete(nUpdates, id)
             /\ UNCHANGED <<now, storeFrame>>
             /\ Surface

----------------------------------------------------------------------------
\* ElementStore.query(type, filters); q carries the arguments that are not
\* undefined

\* if (type) results = results.filter(el => el.type === type)
passesType(el, q) ==
    TruthyString(q, "type") => (Has(el, "type") /\ el["type"] = q["type"])

\* a filter that asks for some entry to match, not every entry
passesFiltersSome(el, q) ==
    (Has(q, "filters") /\ DOMAIN q["filters"] # {}) =>
        \E key \in DOMAIN q["filters"] : Has(el, key) /\ el[key] = q["filters"][key]

\* if (filters && Object.keys(filters).length > 0)
\*   results = results.filter(el => entries.every(([key, value]) => el[key] === value))
passesFilters(el, q) ==
    (Has(q, "filters") /\ DOMAIN q["filters"] # {}) =>
        \A key \in DOMAIN q["filters"] : Has(el, key) /\ el[key] = q["filters"][key]

query(q) ==
    BagOfValues(elements,
                {k \in DOMAIN elements :
                    passesType(elements[k], q) /\ passesFilters(elements[k], q)})

Query(Queries) ==
    \E q \in Queries :
        /\ Notify([op |-> "query", data |-> q, id |-> "", ids |-> <<>>,
                   ret |-> query(q), err |-> "", beforeCount |-> MapSize(elements)],
                  <<>>)
        /\ UNCHANGED <<elements, now, nUpdates, storeFrame>>
        /\ Surface

----------------------------------------------------------------------------
\* ElementStore.batchCreate

\* item lists of at most n items
Lists(S, n) == UNION {[1..k -> S] : k \in 0..n}

\* this.elements.set(ids[i], recs[i]) for i = from .. Len(ids), in order
RECURSIVE SetAll(_, _, _, _)

\* a loop that stops one item early
SetAllButLast(m, ids, recs, from) ==
    IF from >= Len(ids) THEN m
    ELSE SetAll(MapSet(m, ids[from], recs[from]), ids, recs, from + 1)

SetAll(m, ids, recs, from) ==
    IF from > Len(ids) THEN m
    ELSE SetAll(MapSet(m, ids[from], recs[from]), ids, recs, from + 1)

\* the Math.random() draws of one loop over items: generateId() is called, and
\* a draw made, only for an item whose id is falsy
Draws(items) ==
    {rs \in [1..Len(items) -> Rand] :
        \A i \in 1..Len(items) : TruthyString(items[i], "id") => rs[i] = "r"}

\* the id each loop iteration computes; rs[i] is its Math.random() draw
batchIds(items, t, rs) == [i \in 1..Len(items) |-> createId(items[i], t, rs[i])]

\* the `created` array
batchCreated(items, t, rs) ==
    [i \in 1..Len(items) |->
        convertTextToLabel(createElement(items[i], batchIds(items, t, rs)[i], t))]

\* a batchCreate() that also notifies per item, as a loop over create() would
batchCreateMessagesPerItem(created) ==
    [i \in 1..Len(created) |-> [type |-> "element_created", element |-> created[i]]]
        \o <<[type |-> "elements_batch_created", elements |-> created]>>

\* the messages one batchCreate call hands to notify()
batchCreateMessages(created) ==
    <<[type |-> "elements_batch_created", elements |-> created]>>

ZeroFor(ids) == [k \in {ids[i] : i \in 1..Len(ids)} |-> 0]

\* the update() calls each stored element has gone through, after the
\* update() calls on ids
countUpdates(n, ids) ==
    [k \in DOMAIN n |-> n[k] + Cardinality({i \in DOMAIN ids : ids[i] = k})]

BatchCreate(Items) ==
    \E items \in Lists(Items, MaxBatch) :
      \E rs \in Draws(items) :
        LET ids == batchIds(items, now, rs)
            created == batchCreated(items, now, rs)
        IN  /\ elements' = committed(elements, SetAll(elements, ids, created, 1),
                                     listeners, batchCreateMessages(created))
            /\ Notify([op |-> "batchCreate", data |-> items, id |-> "", ids |-> ids,
                        ret |-> created, err |-> "", beforeCount |-> MapSize(elements)],
                      batchCreateMessages(created))
            /\ nUpdates' = Spread(nUpdates, ZeroFor(ids))
            /\ UNCHANGED <<now, storeFrame>>
            /\ Surface

----------------------------------------------------------------------------
\* ElementStore.batchUpdate and ElementStore.batchDelete, as the specification
\* describes them (the routes PUT and DELETE /api/elements/batch call them):
\* every item is applied, an id the store does not hold is collected as a
\* failure, and one aggregate message is handed to notify()

\* for each item { id, ...updates } from the item `from` on: update the record
\* as update() does, or collect the id
RECURSIVE batchUpdateLoop(_, _, _, _)
batchUpdateLoop(acc, items, t, from) ==
    IF from > Len(items) THEN acc
    ELSE LET id == items[from]["id"]
         IN  IF ~MapHas(acc.els, id)
             THEN batchUpdateLoop([acc EXCEPT !.failed = Append(@, id)],
                                  items, t, from + 1)
             ELSE LET stored == convertTextToLabel(
                                   updateElement(acc.els[id], Rest(items[from], "id"),
                                                 id, t))
                  IN  batchUpdateLoop([els |-> MapSet(acc.els, id, stored),
                                       done |-> Append(acc.done, stored),
                                       ids |-> Append(acc.ids, id),
                                       failed |-> acc.failed],
                                      items, t, from + 1)

\* a batchUpdate() that notifies per item, as a loop over update() would
batchUpdateMessagesPerItem(updated) ==
    [i \in 1..Len(updated) |-> [type |-> "element_updated", element |-> updated[i]]]

batchUpdateMessages(updated) ==
    <<[type |-> "elements_batch_updated", elements |-> updated]>>

BatchUpdate(Items) ==
    \E items \in Lists(Items, MaxBatch) :
        LET done == batchUpdateLoop([els |-> elements, done |-> <<>>, ids |-> <<>>,
                                     failed |-> <<>>], items, now, 1)
        IN  /\ \A k \in DOMAIN nUpdates : countUpdates(nUpdates, done.ids)[k] <= MaxUpdates
            /\ elements' = done.els
            /\ nUpdates' = countUpdates(nUpdates, done.ids)
            /\ Notify([op |-> "batchUpdate", data |-> items, id |-> "", ids |-> done.ids,
                       ret |-> done.done, err |-> "", beforeCount |-> MapSize(elements)],
                      batchUpdateMessages(done.done))
            /\ UNCHANGED <<now, storeFrame>>
            /\ Surface

\* for each id from the item `from` on: delete the record, or collect the id
RECURSIVE batchDeleteLoop(_, _, _)

\* a loop that gives up at the first id the store does not hold
batchDeleteLoopAborting(acc, ids, from) ==
    IF from > Len(ids) THEN acc
    ELSE IF ~MapHas(acc.els, ids[from])
         THEN [acc EXCEPT !.failed = Append(@, ids[from])]
         ELSE batchDeleteLoop([els |-> MapDelete(acc.els, ids[from]),
                               deleted |-> Append(acc.deleted, ids[from]),
                               failed |-> acc.failed],
                              ids, from + 1)

batchDeleteLoop(acc, ids, from) ==
    IF from > Len(ids) THEN acc
    ELSE IF ~MapHas(acc.els, ids[from])
         THEN batchDeleteLoop([acc EXCEPT !.failed = Append(@, ids[from])], ids, from + 1)
         ELSE batchDeleteLoop([els |-> MapDelete(acc.els, ids[from]),
                               deleted |-> Append(acc.deleted, ids[from]),
                               failed |-> acc.failed],
                              ids, from + 1)

batchDeleteMessages(deleted) ==
    <<[type |-> "elements_batch_deleted", elementIds |-> deleted]>>

BatchDelete(Ids) ==
    \E ids \in Lists(Ids, MaxBatch) :
        LET done == batchDeleteLoop([els |-> elements, deleted |-> <<>>,
                                     failed |-> <<>>], ids, 1)
        IN  /\ elements' = done.els
            /\ nUpdates' = [k \in DOMAIN done.els |-> nUpdates[k]]
            /\ Notify([op |-> "batchDelete", data |-> ids, id |-> "",
                       ids |-> done.deleted,
                       ret |-> [deleted |-> Len(done.deleted), failed |-> done.failed],
                       err |-> "", beforeCount |-> MapSize(elements)],
                      batchDeleteMessages(done.deleted))
            /\ UNCHANGED <<now, storeFrame>>
            /\ Surface

----------------------------------------------------------------------------
\* ElementStore.sync

\* a sync() that spreads the element last, so its own fields win
syncElementVerbatim(el, id, t, timestamp) ==
    Spread([id |-> id, syncedAt |-> t, source |-> "frontend_sync",
            syncTimestamp |-> timestamp, version |-> 1], el)

\* { ...el, id, syncedAt, source: 'frontend_sync', syncTimestamp, version: 1 }
syncElement(el, id, t, timestamp) ==
    Spread(el, [id |-> id, syncedAt |-> t, source |-> "frontend_sync",
                syncTimestamp |-> timestamp, version |-> 1])

syncProcessed(els, t, rs, timestamp) ==
    [i \in 1..Len(els) |-> syncElement(els[i], batchIds(els, t, rs)[i], t, timestamp)]

\* the local `count`, incremented once per loop iteration
syncCount(els) == Len(els)

Sync(Items, Timestamps) ==
    \E els \in Lists(Items, MaxBatch), timestamp \in Timestamps :
      \E rs \in Draws(els) :
        LET ids == batchIds(els, now, rs)
            processed == syncProcessed(els, now, rs, timestamp)
            count == syncCount(els)
        IN  /\ elements' = committed(elements, SetAll(EmptyMap, ids, processed, 1),
                                     listeners,
                                     <<[type |-> "elements_synced", count |-> count,
                                        timestamp |-> now, source |-> "manual_sync"]>>)
            /\ Notify([op |-> "sync", data |-> els, id |-> "", ids |-> ids,
                        ret |-> [count |-> count, beforeCount |-> MapSize(elements)],
                        err |-> "", beforeCount |-> MapSize(elements)],
                      <<[type |-> "elements_synced", count |-> count,
                         timestamp |-> now, source |-> "manual_sync"]>>)
            /\ nUpdates' = ZeroFor(ids)
            /\ UNCHANGED <<now, storeFrame>>
            /\ Surface

----------------------------------------------------------------------------
\* The schemas of the routes and of the tools: parse() returns its argument
\* when the required fields are there and the type is one of the enum, and
\* throws otherwise

ElementTypes == {"rectangle", "ellipse", "diamond", "arrow", "text", "line"}

\* CreateElementSchema.parse(el), ElementSchema.parse(args)
validCreate(el) ==
    /\ Has(el, "type") /\ el["type"] \in ElementTypes
    /\ Has(el, "x")
    /\ Has(el, "y")

\* UpdateElementSchema.parse(el)
validUpdate(el) ==
    /\ Has(el, "id")
    /\ Has(el, "type") => el["type"] \in ElementTypes

\* the message of the ZodError that parse() throws
ValidationError == "validation failed"

\* a handler whose parse() throws before it has called the store
Rejected(op, data) ==
    /\ Notify([op |-> op, data |-> data, id |-> "", ids |-> <<>>, ret |-> EmptyObject,
                err |-> ValidationError, beforeCount |-> MapSize(elements)], <<>>)
    /\ UNCHANGED <<elements, now, nUpdates, storeFrame>>
    /\ Surface

----------------------------------------------------------------------------
\* ElementStore.clear, and POST /api/load: clear(), then the elements of the
\* body are parsed, then batchCreate

\* a clear() that tells the listeners the collection was emptied
clearMessagesCleared == <<[type |-> "elements_cleared"]>>

\* clear() calls this.elements.clear() and never this.notify(...)
clearMessages == <<>>

\* clear(), as DELETE /api/elements calls it
Clear ==
    /\ elements' = EmptyMap
    /\ Notify([op |-> "clear", data |-> EmptyObject, id |-> "", ids |-> <<>>,
                ret |-> EmptyObject, err |-> "", beforeCount |-> MapSize(elements)],
              clearMessages)
    /\ nUpdates' = [k \in {} |-> 0]
    /\ UNCHANGED <<now, storeFrame>>
    /\ Surface

Load(Items) ==
    \E items \in Lists(Items, MaxBatch) :
        IF \A i \in 1..Len(items) : validCreate(items[i])
        THEN \E rs \in Draws(items) :
               LET ids == batchIds(items, now, rs)
                   created == batchCreated(items, now, rs)
               IN  /\ elements' = SetAll(EmptyMap, ids, created, 1)
                   /\ Notify([op |-> "load", data |-> items, id |-> "", ids |-> ids,
                               ret |-> created, err |-> "",
                               beforeCount |-> MapSize(elements)],
                             batchCreateMessages(created))
                   /\ nUpdates' = ZeroFor(ids)
                   /\ UNCHANGED <<now, storeFrame>>
                   /\ Surface
        ELSE /\ elements' = EmptyMap
             /\ Notify([op |-> "load", data |-> items, id |-> "", ids |-> <<>>,
                         ret |-> EmptyObject, err |-> ValidationError,
                         beforeCount |-> MapSize(elements)], <<>>)
             /\ nUpdates' = [k \in {} |-> 0]
             /\ UNCHANGED <<now, storeFrame>>
             /\ Surface

\* POST /api/elements and the tool create_element: parse, then create
PostElement(Bodies) ==
    \/ Create({body \in Bodies : validCreate(body)})
    \/ \E body \in Bodies :
          /\ ~validCreate(body)
          /\ Rejected("POST /api/elements", body)

\* POST /api/elements/batch: every element is parsed, then batchCreate
PostBatch(Items) ==
    \/ BatchCreate({item \in Items : validCreate(item)})
    \/ \E items \in Lists(Items, MaxBatch) :
          /\ \E i \in 1..Len(items) : ~validCreate(items[i])
          /\ Rejected("POST /api/elements/batch", items)

\* PUT /api/elements/batch: every element is parsed, then batchUpdate
PutBatch(Items) ==
    \/ BatchUpdate({item \in Items : validUpdate(item)})
    \/ \E items \in Lists(Items, MaxBatch) :
          /\ \E i \in 1..Len(items) : ~validUpdate(items[i])
          /\ Rejected("PUT /api/elements/batch", items)

----------------------------------------------------------------------------
\* The tools group_elements and ungroup_elements (src/mcp/tools.ts)

\* el.groupIds || []
groupIdsOf(el) == IF Has(el, "groupIds") THEN el["groupIds"] ELSE <<>>

Without(ids, groupId) == SelectSeq(ids, LAMBDA gid : gid # groupId)

\* the groupIds the loop of the tool hands to update(): [...existing, groupId]
\* when grouping, existing.filter(gid => gid !== groupId) when ungrouping
newGroupIds(el, groupId, grouping) ==
    IF grouping THEN Append(groupIdsOf(el), groupId)
    ELSE Without(groupIdsOf(el), groupId)

\* for (const elId of elementIds) { const el = getById(elId);
\*   if (el) { update(elId, { groupIds }); successCount++ } }
\* from the item `from` on: acc carries the map, the messages update() has
\* handed to notify() and the ids it has updated; a listener that throws
\* (stop) ends the loop inside the first update()
RECURSIVE updateMembers(_, _, _, _, _, _, _)
updateMembers(acc, elementIds, groupId, grouping, t, stop, from) ==
    IF from > Len(elementIds) \/ (stop /\ acc.msgs # <<>>) THEN acc
    ELSE LET elId == elementIds[from]
         IN  IF ~MapHas(acc.els, elId)
             THEN updateMembers(acc, elementIds, groupId, grouping, t, stop, from + 1)
             ELSE LET stored == convertTextToLabel(
                                   updateElement(acc.els[elId],
                                       [groupIds |-> newGroupIds(acc.els[elId], groupId,
                                                                 grouping)],
                                       elId, t))
                  IN  updateMembers(
                          [els |-> MapSet(acc.els, elId, stored),
                           msgs |-> Append(acc.msgs, [type |-> "element_updated",
                                                      element |-> stored]),
                           ids |-> Append(acc.ids, elId)],
                          elementIds, groupId, grouping, t, stop, from + 1)

GroupNotFound(groupId) == "Group " \o groupId \o " not found"

NoneGrouped == "Failed to group any elements: elements not found"

GroupElements(IdLists) ==
    \E elementIds \in IdLists, r \in Rand :
        LET groupId == generateId(now, r)
            stop == notifyThrows(listeners, <<groupId>>)
            done == updateMembers([els |-> elements, msgs |-> <<>>, ids |-> <<>>],
                                  elementIds, groupId, TRUE, now, stop, 1)
            successCount == Len(done.ids)
        IN  /\ \A k \in DOMAIN nUpdates : countUpdates(nUpdates, done.ids)[k] <= MaxUpdates
            /\ elements' = done.els
            /\ nUpdates' = countUpdates(nUpdates, done.ids)
            /\ groups' = IF successCount = 0
                          THEN MapDelete(MapSet(groups, groupId, elementIds), groupId)
                          ELSE MapSet(groups, groupId, elementIds)
            /\ Notify([op |-> "group_elements", data |-> elementIds, id |-> groupId,
                       ids |-> done.ids,
                       ret |-> IF successCount = 0 THEN EmptyObject
                               ELSE [groupId |-> groupId, elementIds |-> elementIds,
                                     successCount |-> successCount],
                       err |-> IF successCount = 0 THEN NoneGrouped ELSE "",
                       beforeCount |-> MapSize(elements)],
                      done.msgs)
            /\ UNCHANGED <<now, listeners, viewerVars>>
            /\ Surface

\* an ungroup_elements that never finds the group missing
ungroupNotFoundNever(gs, groupId) == FALSE

\* if (!elementStore.sceneState.groups.has(groupId)) throw ...
ungroupNotFound(gs, groupId) == ~MapHas(gs, groupId)

\* groups.get(groupId), iterated as elementIds ?? []
ungroupMembers(gs, groupId) == IF MapHas(gs, groupId) THEN gs[groupId] ELSE <<>>

UngroupElements(GroupIds) ==
    \E groupId \in GroupIds :
        IF ungroupNotFound(groups, groupId)
        THEN /\ Notify([op |-> "ungroup_elements", data |-> <<>>, id |-> groupId,
                        ids |-> <<>>, ret |-> EmptyObject, err |-> GroupNotFound(groupId),
                        beforeCount |-> MapSize(elements)], <<>>)
             /\ UNCHANGED <<elements, now, nUpdates, storeFrame>>
             /\ Surface
        ELSE LET elementIds == ungroupMembers(groups, groupId)
                 stop == notifyThrows(listeners, <<groupId>>)
                 done == updateMembers([els |-> elements, msgs |-> <<>>, ids |-> <<>>],
                                       elementIds, groupId, FALSE, now, stop, 1)
             IN  /\ \A k \in DOMAIN nUpdates :
                       countUpdates(nUpdates, done.ids)[k] <= MaxUpdates
                 /\ elements' = done.els
                 /\ nUpdates' = countUpdates(nUpdates, done.ids)
                 /\ groups' = MapDelete(groups, groupId)
                 /\ Notify([op |-> "ungroup_elements", data |-> elementIds,
                            id |-> groupId, ids |-> done.ids,
                            ret |-> [groupId |-> groupId, ungrouped |-> TRUE,
                                     elementIds |-> elementIds,
                                     successCount |-> Len(done.ids)],
                            err |-> "", beforeCount |-> MapSize(elements)],
                           done.msgs)
                 /\ UNCHANGED <<now, listeners, viewerVars>>
                 /\ Surface

----------------------------------------------------------------------------
\* The tool handler (src/mcp/tools.ts): the other tools, and the try/catch
\* around all of them

\* for (const elId of elementIds) { if (elementStore.has(elId)) {
\*   update(elId, { locked }); successCount++ } }, as updateMembers
RECURSIVE lockMembers(_, _, _, _, _, _)
lockMembers(acc, elementIds, locked, t, stop, from) ==
    IF from > Len(elementIds) \/ (stop /\ acc.msgs # <<>>) THEN acc
    ELSE LET elId == elementIds[from]
         IN  IF ~MapHas(acc.els, elId)
             THEN lockMembers(acc, elementIds, locked, t, stop, from + 1)
             ELSE LET stored == convertTextToLabel(
                                   updateElement(acc.els[elId], [locked |-> locked],
                                                 elId, t))
                  IN  lockMembers(
                          [els |-> MapSet(acc.els, elId, stored),
                           msgs |-> Append(acc.msgs, [type |-> "element_updated",
                                                      element |-> stored]),
                           ids |-> Append(acc.ids, elId)],
                          elementIds, locked, t, stop, from + 1)

NoneLocked(locked) ==
    "Failed to " \o (IF locked THEN "lock" ELSE "unlock")
                 \o " any elements: elements not found"

\* lock_elements (locked) and unlock_elements (not locked)
LockElements(IdLists, Flags) ==
    \E elementIds \in IdLists, locked \in Flags :
        LET stop == notifyThrows(listeners, <<locked>>)
            done == lockMembers([els |-> elements, msgs |-> <<>>, ids |-> <<>>],
                                elementIds, locked, now, stop, 1)
            successCount == Len(done.ids)
        IN  /\ \A k \in DOMAIN nUpdates : countUpdates(nUpdates, done.ids)[k] <= MaxUpdates
            /\ elements' = done.els
            /\ nUpdates' = countUpdates(nUpdates, done.ids)
            /\ Notify([op |-> IF locked THEN "lock_elements" ELSE "unlock_elements",
                       data |-> elementIds, id |-> "", ids |-> done.ids,
                       ret |-> IF successCount = 0 THEN EmptyObject
                               ELSE [locked |-> locked, elementIds |-> elementIds,
                                     successCount |-> successCount],
                       err |-> IF successCount = 0 THEN NoneLocked(locked) ELSE "",
                       beforeCount |-> MapSize(elements)],
                      done.msgs)
            /\ UNCHANGED <<now, storeFrame>>
            /\ Surface

\* a tool call that throws before it has called the store
Failed(op, data, message) ==
    /\ Notify([op |-> op, data |-> data, id |-> "", ids |-> <<>>, ret |-> EmptyObject,
                err |-> message, beforeCount |-> MapSize(elements)], <<>>)
    /\ UNCHANGED <<elements, now, nUpdates, storeFrame>>
    /\ Surface

UnknownToolError(name) == "Unknown tool: " \o name

\* default: throw new Error(`Unknown tool: ${name}`)
UnknownTool(Names) ==
    \E name \in Names : Failed(name, EmptyObject, UnknownToolError(name))

\* create_element: ElementSchema.parse(args), then create
ToolCreateElement(Args) ==
    \/ Create({args \in Args : validCreate(args)})
    \/ \E args \in Args :
          /\ ~validCreate(args)
          /\ Rejected("create_element", args)

IdRequired == "Element ID is required"

\* update_element: ElementIdSchema.merge(ElementSchema.partial()).parse(args),
\* then update(id, { ...updates, updatedAt })
ToolUpdateElement(Args) ==
    \E args \in Args :
        IF ~validUpdate(args) THEN Rejected("update_element", args)
        ELSE IF args["id"] = "" THEN Failed("update_element", args, IdRequired)
        ELSE Update({args["id"]}, {Spread(Rest(args, "id"), [updatedAt |-> now])})

\* delete_element: ElementIdSchema.parse(args), then delete(id)
ToolDeleteElement(Args) ==
    \E args \in Args :
        IF ~Has(args, "id") THEN Rejected("delete_element", args)
        ELSE Delete({args["id"]})

\* a handler whose catch lets every error but those of the schemas through
callToolResultRethrowing(rec) ==
    IF rec.err = "" THEN [isError |-> FALSE, thrown |-> FALSE, text |-> rec.ret]
    ELSE IF rec.err = ValidationError
    THEN [isError |-> TRUE, thrown |-> FALSE, text |-> "Error: " \o rec.err]
    ELSE [isError |-> FALSE, thrown |-> TRUE, text |-> rec.err]

\* what the handler answers for the call rec: the text of the case that
\* returned, or from the catch around the switch the error's message, marked
\* isError; no statement that can throw is outside the try but onActivity()
callToolResult(rec) ==
    IF rec.err = "" THEN [isError |-> FALSE, thrown |-> FALSE, text |-> rec.ret]
    ELSE [isError |-> TRUE, thrown |-> FALSE, text |-> "Error: " \o rec.err]

----------------------------------------------------------------------------
\* ElementStore.onChange and the handle it returns

OnChange(Ls) ==
    \E l \in Ls :
        /\ Len(listeners) < MaxListeners
        /\ listeners' = Append(listeners, l)
        /\ Notify([op |-> "onChange", data |-> EmptyObject, id |-> l, ids |-> <<>>,
                   ret |-> EmptyObject, err |-> "", beforeCount |-> MapSize(elements)],
                  <<>>)
        /\ UNCHANGED <<elements, now, nUpdates, groups, viewerVars, processVars>>

\* this.listeners = this.listeners.filter(l => l !== listener)
Unsubscribe(Ls) ==
    \E l \in Ls :
        /\ \E i \in 1..Len(listeners) : listeners[i] = l
        /\ listeners' = SelectSeq(listeners, LAMBDA x : x # l)
        /\ Notify([op |-> "unsubscribe", data |-> EmptyObject, id |-> l, ids |-> <<>>,
                   ret |-> EmptyObject, err |-> "", beforeCount |-> MapSize(elements)],
                  <<>>)
        /\ UNCHANGED <<elements, now, nUpdates, groups, viewerVars, processVars>>

----------------------------------------------------------------------------
\* The broadcaster (src/canvas/websocket.ts): the handlers of a connection

\* a handler that sends the status before the snapshot
connectionMessagesStatusFirst(els, n, t) ==
    <<stringify([type |-> "sync_status", elementCount |-> n, timestamp |-> t]),
      stringify([type |-> "initial_elements", elements |-> els])>>

\* a handler that sends the status and leaves the snapshot out
connectionMessagesNoSnapshot(els, n, t) ==
    <<stringify([type |-> "sync_status", elementCount |-> n, timestamp |-> t])>>

\* ws.send(JSON.stringify(initialMessage)); ws.send(JSON.stringify(syncMessage))
connectionMessages(els, n, t) ==
    <<stringify([type |-> "initial_elements", elements |-> els]),
      stringify([type |-> "sync_status", elementCount |-> n, timestamp |-> t])>>

\* wss.on('connection', ws => ...): a new WebSocket, OPEN when the handler runs
Connect(Vs) ==
    \E v \in Vs :
        /\ wss
        /\ proc = "running"
        /\ readyState[v] = "NONE"
        /\ clients' = clients \cup {v}
        /\ readyState' = [readyState EXCEPT ![v] = "OPEN"]
        /\ sent' = [sent EXCEPT ![v] = @ \o connectionMessages(getAll, size, now)]
        /\ emitted' = <<>>
        /\ calls' = <<>>
        /\ last' = [op |-> "connection", data |-> EmptyObject, id |-> v, ids |-> <<>>,
                    ret |-> EmptyObject, err |-> "", beforeCount |-> MapSize(elements)]
        /\ OnActivity
        /\ UNCHANGED <<elements, now, nUpdates, listeners, groups, wss>>

\* the closing handshake begins: the socket leaves OPEN before its 'close'
\* event is emitted
StartClose(Vs) ==
    \E v \in Vs :
        /\ Alive
        /\ readyState[v] = "OPEN"
        /\ readyState' = [readyState EXCEPT ![v] = "CLOSING"]
        /\ emitted' = <<>>
        /\ calls' = <<>>
        /\ last' = [op |-> "closing", data |-> EmptyObject, id |-> v, ids |-> <<>>,
                    ret |-> EmptyObject, err |-> "", beforeCount |-> MapSize(elements)]
        /\ UNCHANGED <<elements, now, nUpdates, listeners, groups, wss, clients, sent,
                       processVars>>

\* ws.on('close', () => clients.delete(ws))
OnClose(Vs) ==
    \E v \in Vs :
        /\ Alive
        /\ readyState[v] = "CLOSING"
        /\ readyState' = [readyState EXCEPT ![v] = "CLOSED"]
        /\ clients' = clients \ {v}
        /\ emitted' = <<>>
        /\ calls' = <<>>
        /\ last' = [op |-> "close", data |-> EmptyObject, id |-> v, ids |-> <<>>,
                    ret |-> EmptyObject, err |-> "", beforeCount |-> MapSize(elements)]
        /\ UNCHANGED <<elements, now, nUpdates, listeners, groups, wss, sent, processVars>>

\* ws.on('error', error => { logger.error(...); clients.delete(ws) }): the
\* socket has left OPEN when 'error' is emitted, and 'close' follows
OnError(Vs) ==
    \E v \in Vs :
        /\ Alive
        /\ readyState[v] \in {"OPEN", "CLOSING"}
        /\ readyState' = [readyState EXCEPT ![v] = "CLOSING"]
        /\ clients' = clients \ {v}
        /\ emitted' = <<>>
        /\ calls' = <<>>
        /\ last' = [op |-> "error", data |-> EmptyObject, id |-> v, ids |-> <<>>,
                    ret |-> EmptyObject, err |-> "", beforeCount |-> MapSize(elements)]
        /\ UNCHANGED <<elements, now, nUpdates, listeners, groups, wss, sent, processVars>>

\* ws.on('message', () => { onActivity() })
OnMessage(Vs) ==
    \E v \in Vs :
        /\ Alive
        /\ readyState[v] = "OPEN"
        /\ emitted' = <<>>
        /\ calls' = <<>>
        /\ last' = [op |-> "message", data |-> EmptyObject, id |-> v, ids |-> <<>>,
                    ret |-> EmptyObject, err |-> "", beforeCount |-> MapSize(elements)]
        /\ OnActivity
        /\ UNCHANGED <<elements, now, nUpdates, listeners, groups, viewerVars, sent>>

----------------------------------------------------------------------------
\* Shutdown (index.ts shutdown, websocket.ts closeWebSocket) and the passing
\* of time

\* a closeWebSocket() that clears the set and closes no client
closeClientsNone(rs, cs) == rs

\* clients.forEach(client => client.close()): an OPEN socket begins its
\* closing handshake, close() on any other has no effect
closeClients(rs, cs) ==
    [v \in DOMAIN rs |-> IF v \in cs /\ rs[v] = "OPEN" THEN "CLOSING" ELSE rs[v]]

\* a step of the process that calls neither the store nor a listener
Step(op) ==
    /\ emitted' = <<>>
    /\ calls' = <<>>
    /\ last' = [op |-> op, data |-> EmptyObject, id |-> "", ids |-> <<>>,
                ret |-> EmptyObject, err |-> "", beforeCount |-> MapSize(elements)]
    /\ UNCHANGED <<elements, now, nUpdates, listeners, groups, sent>>

\* a shutdown() that exits at once, awaiting neither closeWebSocket() nor
\* httpServer.close()
shutdownNoAwait(p) == Exited(0)

\* shutdown(): where the process is after the call has reached its first
\* await.  A call while an earlier one is awaiting finds no client, registers
\* its callbacks on the same close events and waits with it.
shutdown(p) == IF p = "running" THEN "closeWebSocket" ELSE p

\* shutdown(), called with the timeouts ts that are pending: it clears the
\* timer index.ts holds and calls closeWebSocket(), which closes every
\* client, clears the set and calls wss.close(callback); shutdown() then
\* awaits
Shutdown(op, ts) ==
    /\ timeouts' = IF inactivityTimer # 0 THEN clearTimeout(ts, inactivityTimer) ELSE ts
    /\ IF proc = "running"
       THEN /\ readyState' = closeClients(readyState, clients)
            /\ clients' = {}
            /\ proc' = shutdown(proc)
       ELSE UNCHANGED <<readyState, clients, proc>>
    /\ Step(op)
    /\ UNCHANGED <<wss, inactivityTimer, idle>>

\* the callback of the inactivity timer runs and calls shutdown()
TimerFires ==
    \E h \in DOMAIN timeouts :
        /\ Alive
        /\ timeouts[h] = 0
        /\ Shutdown("timeout", clearTimeout(timeouts, h))

\* process.on('SIGTERM', shutdown); process.on('SIGINT', shutdown): a
\* termination signal reaches the process index.ts has started
Signal ==
    /\ Alive
    /\ proc # "loaded"
    /\ Shutdown("signal", timeouts)

\* wss.close(() => { wss = null; resolve() }): closeWebSocket() resolves and
\* shutdown() goes on to httpServer.close(callback)
WssClosed ==
    /\ proc = "closeWebSocket"
    /\ wss' = FALSE
    /\ proc' = "httpClose"
    /\ Step("wss closed")
    /\ UNCHANGED <<clients, readyState, inactivityTimer, timeouts, idle>>

\* httpServer.close(() => resolve()), called back when every connection of
\* the server has ended; then process.exit(0)
HttpClosed ==
    /\ proc = "httpClose"
    /\ \A v \in DOMAIN readyState : readyState[v] \in {"NONE", "CLOSED"}
    /\ proc' = Exited(0)
    /\ Step("exit")
    /\ UNCHANGED <<viewerVars, inactivityTimer, timeouts, idle>>

\* GET /health: the middleware calls onActivity(), the route answers
Health ==
    /\ Step("GET /health")
    /\ UNCHANGED viewerVars
    /\ Surface

\* time passes, by one unit, while no timeout is due
Elapse ==
    /\ Alive
    /\ \A h \in DOMAIN timeouts : timeouts[h] > 0
    /\ timeouts' = [h \in DOMAIN timeouts |-> timeouts[h] - 1]
    /\ idle' = IF idle < INACTIVITY_TIMEOUT_MS THEN idle + 1 ELSE idle
    /\ Step("elapse")
    /\ UNCHANGED <<viewerVars, inactivityTimer, proc>>

----------------------------------------------------------------------------
\* The clock

Tick ==
    /\ now < MaxClock
    /\ now' = now + 1
    /\ Notify([op |-> "tick", data |-> EmptyObject, id |-> "", ids |-> <<>>,
                ret |-> EmptyObject, err |-> "", beforeCount |-> MapSize(elements)],
              <<>>)
    /\ UNCHANGED <<elements, nUpdates, storeFrame, processVars>>

----------------------------------------------------------------------------
\* The state after the modules are loaded: an empty store with no listener and
\* no group, no WebSocketServer, no connection

\* the viewer connections the model follows, one WebSocket each
Viewers == {"v1", "v2"}

\* sceneState.groups = new Map()
EmptyGroups == [k \in {} |-> <<>>]

Init ==
    /\ elements = EmptyMap
    /\ now = 0
    /\ emitted = <<>>
    /\ last = [op |-> "init", data |-> EmptyObject, id |-> "", ids |-> <<>>,
               ret |-> EmptyObject, err |-> "", beforeCount |-> 0]
    /\ nUpdates = [k \in {} |-> 0]
    /\ listeners = <<>>
    /\ calls = <<>>
    /\ groups = EmptyGroups
    /\ wss = FALSE
    /\ clients = {}
    /\ readyState = [v \in Viewers |-> "NONE"]
    /\ sent = [v \in Viewers |-> <<>>]
    /\ inactivityTimer = 0
    /\ timeouts = NoTimeouts
    /\ proc = "loaded"
    /\ idle = 0

----------------------------------------------------------------------------
\* Ids, versions and events: callers that give no id, the empty id or the id
\* "a", updates that carry a version or an id of their own, lists of up to
\* MaxBatch items, all within one reading of the clock (generated ids then
\* differ by their random part alone, and may repeat)

\* an object with the field k absent, or present with one of vals
Optional(k, vals) == {EmptyObject} \cup {[f \in {k} |-> v] : v \in vals}

\* the objects made of one object of A and one of B
Product(A, B) == {Spread(a, b) : a \in A, b \in B}

StoreCreateInputs ==
    Product(Product({[type |-> "rectangle", x |-> 0]}, Optional("id", {"", "a"})),
            Optional("version", {7}))

StoreItems == Product({[type |-> "rectangle", x |-> 0]}, Optional("id", {"a"}))

StoreSyncItems ==
    Product({[type |-> "rectangle", x |-> 0, version |-> 7]}, Optional("id", {"a"}))

StorePayloads ==
    {EmptyObject, [version |-> 7], [id |-> "b"]}

StoreIds == {"a", "b"} \cup {generateId(0, r) : r \in Rand}

Next ==
    \/ Create(StoreCreateInputs)
    \/ Update(StoreIds, StorePayloads)
    \/ Delete(StoreIds)
    \/ BatchCreate(StoreItems)
    \/ Sync(StoreSyncItems, {"t1"})
    \/ Clear

Spec == Init /\ [][Next]_vars

----------------------------------------------------------------------------
\* The round trip of create: every shape of id, type, text and label a create
\* input can carry, on a store built by earlier creates

RoundTripInputs ==
    Product(Product({[x |-> 0]}, Optional("id", {"", "a"})),
            Product({[type |-> "rectangle"], [type |-> "text"]},
                    Optional("text", {"", "hi"})))

NextCreate ==
    \/ Create(RoundTripInputs)
    \/ Delete(StoreIds)
    \/ Clear

SpecCreate == Init /\ [][NextCreate]_vars

----------------------------------------------------------------------------
\* Text and label: one element, every write path, the clock running

TextCreateInputs ==
    Product({[id |-> "a", x |-> 0]},
            Product({[type |-> "rectangle"], [type |-> "text"]},
                    Product(Optional("text", {"", "hi"}),
                            Optional("label", {[text |-> "lb"]}))))

TextPayloads ==
    Product(Product(Optional("x", {10}), Optional("type", {"rectangle", "text"})),
            Product(Optional("text", {"", "hi"}), Optional("label", {[text |-> "lb"]})))

TextItems ==
    { [id |-> "a", x |-> 0, y |-> 0, type |-> "rectangle", text |-> "hi"],
      [id |-> "a", x |-> 0, y |-> 0, type |-> "text", text |-> "hi"],
      [id |-> "a", x |-> 0, y |-> 0, type |-> "rectangle", label |-> [text |-> "lb"]] }

TextSyncItems ==
    { [id |-> "a", x |-> 0, type |-> "rectangle", version |-> 7],
      [id |-> "a", x |-> 0, type |-> "text", text |-> "hi", version |-> 7],
      [id |-> "a", x |-> 0, type |-> "rectangle", text |-> "hi",
       label |-> [text |-> "lb"], version |-> 7] }

NextText ==
    \/ Create(TextCreateInputs)
    \/ Update({"a"}, TextPayloads)
    \/ Delete({"a"})
    \/ BatchCreate(TextItems)
    \/ Sync(TextSyncItems, {"t1"})
    \/ Load(TextItems)
    \/ Clear
    \/ Tick

SpecText == Init /\ [][NextText]_vars

----------------------------------------------------------------------------
\* Styles and queries: elements of two types, with and without colours, and
\* queries by type ("" included, as GET /api/elements/search?type= gives it)
\* and by one or two fields

StyleCreateInputs ==
    Product(Product({[x |-> 0, y |-> 0, width |-> 100, height |-> 50]},
                    Optional("id", {"a"})),
            Product({[type |-> "rectangle"], [type |-> "ellipse"]},
                    {EmptyObject, [strokeColor |-> "red"],
                     [strokeColor |-> "red", backgroundColor |-> "blue"]}))

Queries ==
    Product(Optional("type", {"", "rectangle"}),
            Optional("filters", {EmptyObject, [strokeColor |-> "red"],
                                 [strokeColor |-> "red", width |-> 100],
                                 [width |-> 50]}))

NextQuery ==
    \/ Create(StyleCreateInputs)
    \/ Query(Queries)
    \/ Delete(StoreIds)
    \/ Clear

SpecQuery == Init /\ [][NextQuery]_vars

----------------------------------------------------------------------------
\* Groups: the elements "a" and "b", created, grouped, ungrouped and deleted

GroupCreateInputs == {[id |-> "a", type |-> "rectangle", x |-> 0],
                      [id |-> "b", type |-> "ellipse", x |-> 0]}

GroupMemberIds == {"a", "b"}

GroupIds == {generateId(0, r) : r \in Rand}

NextGroups ==
    \/ Create(GroupCreateInputs)
    \/ GroupElements(Lists(GroupMemberIds, MaxBatch) \ {<<>>})
    \/ UngroupElements(GroupIds)
    \/ Delete(GroupMemberIds)

SpecGroups == Init /\ [][NextGroups]_vars

----------------------------------------------------------------------------
\* Regrouping: the elements "a" and "b", created as the caller draws them or
\* as a scene holds them, with the id of a group in groupIds, then grouped and
\* ungrouped

RegroupCreateInputs ==
    Product({[id |-> "a", type |-> "rectangle", x |-> 0, y |-> 0],
             [id |-> "b", type |-> "ellipse", x |-> 0, y |-> 0]},
            Optional("groupIds", {<<generateId(0, "r")>>}))

NextRegroup ==
    \/ Create(RegroupCreateInputs)
    \/ GroupElements({<<"a">>, <<"a", "b">>})
    \/ UngroupElements(GroupIds)

SpecRegroup == Init /\ [][NextRegroup]_vars

----------------------------------------------------------------------------
\* Batch update and batch delete: lists over the ids "a" and "b", which the
\* store may or may not hold, and an id it never holds

BatchCreateInputs == {[id |-> "a", type |-> "rectangle", x |-> 0],
                      [id |-> "b", type |-> "rectangle", x |-> 0]}

BatchUpdateItems == {[id |-> "a", x |-> 1], [id |-> "b", x |-> 1],
                     [id |-> "a", x |-> 2]}

BatchDeleteIds == {"a", "b", "missing"}

NextBatch ==
    \/ Create(BatchCreateInputs)
    \/ BatchUpdate(BatchUpdateItems)
    \/ BatchDelete(BatchDeleteIds)

SpecBatch == Init /\ [][NextBatch]_vars

----------------------------------------------------------------------------
\* Listeners: up to MaxListeners registrations of the listeners "f", "g" and
\* "bad", one function registered twice included, around the calls that emit

ListenerNames == {"f", "g", "bad"}

ListenerCreateInputs == {[id |-> "a", type |-> "rectangle", x |-> 0]}

ListenerItems == {[id |-> "a", type |-> "rectangle", x |-> 0],
                  [id |-> "b", type |-> "rectangle", x |-> 0]}

NextListeners ==
    \/ OnChange(ListenerNames)
    \/ Unsubscribe(ListenerNames)
    \/ Create(ListenerCreateInputs)
    \/ Update({"a"}, {[x |-> 1]})
    \/ Delete({"a"})
    \/ BatchCreate(ListenerItems)
    \/ Sync(ListenerItems, {"t1"})

SpecListeners == Init /\ [][NextListeners]_vars

----------------------------------------------------------------------------
\* Viewers: the server once it listens: index.ts has called initWebSocket,
\* which creates the WebSocketServer and registers the broadcaster's listener,
\* and the callback of listen() has armed the inactivity timer; connections
\* open and close around the mutations of one element

InitServer ==
    /\ elements = EmptyMap
    /\ now = 0
    /\ emitted = <<>>
    /\ last = [op |-> "init", data |-> EmptyObject, id |-> "", ids |-> <<>>,
               ret |-> EmptyObject, err |-> "", beforeCount |-> 0]
    /\ nUpdates = [k \in {} |-> 0]
    /\ listeners = <<"broadcast">>
    /\ calls = <<>>
    /\ groups = EmptyGroups
    /\ wss = TRUE
    /\ clients = {}
    /\ readyState = [v \in Viewers |-> "NONE"]
    /\ sent = [v \in Viewers |-> <<>>]
    /\ inactivityTimer = resetInactivityTimer(0, NoTimeouts).inactivityTimer
    /\ timeouts = resetInactivityTimer(0, NoTimeouts).timeouts
    /\ proc = "running"
    /\ idle = 0

NextViewers ==
    \/ Connect(Viewers)
    \/ StartClose(Viewers)
    \/ OnClose(Viewers)
    \/ Create(ListenerCreateInputs)
    \/ Update({"a"}, {[x |-> 1]})
    \/ Delete({"a"})

SpecViewers == InitServer /\ [][NextViewers]_vars

----------------------------------------------------------------------------
\* Pushes: an element is created and deleted, by a REST route or by a tool,
\* while viewers connect, fail and close

NextPush ==
    \/ Connect(Viewers)
    \/ StartClose(Viewers)
    \/ OnError(Viewers)
    \/ OnClose(Viewers)
    \/ Create(ListenerCreateInputs)
    \/ Delete({"a"})
    \/ Clear
    \/ OnChange({"f"})

SpecPush == InitServer /\ [][NextPush]_vars

----------------------------------------------------------------------------
\* Requests: bodies that pass the schemas, a body without the required y, a
\* body whose type is not in the enum, an update without the required id

RequestBodies ==
    { [id |-> "a", type |-> "rectangle", x |-> 0, y |-> 0],
      [id |-> "a", type |-> "rectangle", x |-> 0],
      [id |-> "b", type |-> "circle", x |-> 0, y |-> 0] }

RequestUpdates == {[id |-> "a", x |-> 1], [x |-> 1]}

NextRequests ==
    \/ PostElement(RequestBodies)
    \/ PostBatch(RequestBodies)
    \/ PutBatch(RequestUpdates)
    \/ Load(RequestBodies)

SpecRequests == InitServer /\ [][NextRequests]_vars

----------------------------------------------------------------------------
\* Tool calls: arguments that pass the schemas and arguments that do not, ids
\* the store holds and ids it does not, a tool that does not exist

ToolUpdateArgs == {[id |-> "a", x |-> 1], [id |-> "zz", x |-> 1], [id |-> ""], [x |-> 1]}

ToolIdArgs == {[id |-> "a"], [id |-> "zz"], EmptyObject}

ToolIdLists == {<<"a">>, <<"zz">>}

NextTools ==
    \/ ToolCreateElement(RequestBodies)
    \/ ToolUpdateElement(ToolUpdateArgs)
    \/ ToolDeleteElement(ToolIdArgs)
    \/ GroupElements(ToolIdLists)
    \/ UngroupElements({"g"})
    \/ LockElements(ToolIdLists, {TRUE, FALSE})
    \/ UnknownTool({"no_such_tool"})

SpecTools == InitServer /\ [][NextTools]_vars

----------------------------------------------------------------------------
\* Replicas: a viewer connects at any point while the element "a" is created,
\* updated, deleted, synced, loaded and cleared through the routes

ReplicaBodies == {[id |-> "a", type |-> "rectangle", x |-> 0, y |-> 0]}

NextReplica ==
    \/ Connect({"v1"})
    \/ Create(ReplicaBodies)
    \/ Update({"a"}, {[x |-> 1]})
    \/ Delete({"a"})
    \/ BatchCreate(ReplicaBodies)
    \/ Sync(ReplicaBodies, {"t1"})
    \/ Load(ReplicaBodies)
    \/ Clear

SpecReplica == InitServer /\ [][NextReplica]_vars

----------------------------------------------------------------------------
\* Idle: requests, tool calls and viewers come and go while time passes, the
\* inactivity timer runs out and the process shuts down

NextIdle ==
    \/ Connect(Viewers)
    \/ OnMessage(Viewers)
    \/ StartClose(Viewers)
    \/ OnError(Viewers)
    \/ OnClose(Viewers)
    \/ Health
    \/ UnknownTool({"no_such_tool"})
    \/ Elapse
    \/ TimerFires
    \/ WssClosed
    \/ HttpClosed

SpecIdle == InitServer /\ [][NextIdle]_vars

\* the same with termination signals, which reach the process at any time
NextShutdown ==
    \/ NextIdle
    \/ Signal

SpecShutdown == InitServer /\ [][NextShutdown]_vars

\* time passes, a timeout that is due runs its callback, the callbacks of
\* wss.close() and httpServer.close() are called, and a socket that is closing
\* gets closed
FairSpecIdle ==
    /\ SpecIdle
    /\ WF_vars(Elapse)
    /\ WF_vars(TimerFires)
    /\ WF_vars(WssClosed)
    /\ WF_vars(HttpClosed)
    /\ WF_vars(OnClose(Viewers))

----------------------------------------------------------------------------
\* Helpers of the properties

Range(f) == {f[i] : i \in DOMAIN f}

\* the keys written by the last call are pairwise distinct
DistinctIds(ids) == \A i, j \in DOMAIN ids : i # j => ids[i] # ids[j]

Succeeded(op) == last.op = op /\ last.err = ""

\* every item of the list carries a non-empty id of the caller's
AllCarryIds(items) == \A i \in DOMAIN items : TruthyString(items[i], "id")

----------------------------------------------------------------------------
\* C1: the record create returns has version 1 and a non-empty id (the
\* caller's id when the caller gave one), and the store holds that record
\* under that id.
C1_CreateReturnsStoredRecord ==
    Succeeded("create") =>
        /\ last.ret["version"] = 1
        /\ last.ret["id"] # ""
        /\ (Has(last.data, "id") => last.ret["id"] = last.data["id"])
        /\ MapHas(elements, last.ret["id"])
        /\ elements[last.ret["id"]] = last.ret

\* C2: an element that was created and then successfully updated N times has
\* version 1 + N, whatever the updates carried.
C2_VersionCountsUpdates ==
    \A k \in DOMAIN elements : elements[k]["version"] = 1 + nUpdates[k]

\* C2 witness: a created element after its second update, the update
\* carrying a version of its own
C2_Witness ==
    /\ Succeeded("update")
    /\ Has(last.data, "version")
    /\ nUpdates[last.id] = 2
    /\ Has(elements[last.id], "createdAt")
    /\ elements[last.id]["version"] = 3

\* C3: update or delete of an id the store does not hold fails with the
\* not-found error, emits nothing and leaves the collection as it was.
C3_MissingIdFailsWithoutEffect ==
    [][(last'.op \in {"update", "delete"} /\ ~MapHas(elements, last'.id)) =>
          /\ last'.err = NotFound(last'.id)
          /\ emitted' = <<>>
          /\ elements' = elements]_vars

\* C3 witness: a failed update or delete on a store that holds elements
C3_Witness ==
    /\ last.op \in {"update", "delete"}
    /\ last.err # ""
    /\ ~MapHas(elements, last.id)
    /\ size > 0

\* C4: one batchCreate call of N items emits exactly one message, an
\* elements_batch_created carrying N records, and no element_created.
C4_BatchCreateEmitsOneEvent ==
    Succeeded("batchCreate") =>
        /\ Len(emitted) = 1
        /\ emitted[1].type = "elements_batch_created"
        /\ Len(emitted[1].elements) = Len(last.data)
        /\ \A i \in 1..Len(emitted) : emitted[i].type # "element_created"

\* C4 witness: a batchCreate of two items
C4_Witness == Succeeded("batchCreate") /\ Len(last.data) = 2

\* C5 as stated: after batchCreate on an empty store the event's list matches
\* getAll() (same length as the items, same records) for every item list,
\* the lists in which two items carry the same caller-supplied id included
\* (stated here on the lists whose items all carry a caller-supplied id).
C5_BatchEventMatchesGetAll_AnyList ==
    (Succeeded("batchCreate") /\ last.beforeCount = 0 /\ AllCarryIds(last.data)) =>
        /\ Len(emitted[1].elements) = Len(last.data)
        /\ size = Len(last.data)
        /\ BagOfSeq(emitted[1].elements) = getAll

\* C5 amended: the same, for the item lists whose items are stored under
\* pairwise distinct ids.
C5_BatchEventMatchesGetAll ==
    (Succeeded("batchCreate") /\ last.beforeCount = 0 /\ DistinctIds(last.ids)) =>
        /\ Len(emitted[1].elements) = Len(last.data)
        /\ size = Len(last.data)
        /\ BagOfSeq(emitted[1].elements) = getAll

\* C5 witness: a batchCreate of two items with distinct ids on an empty store
C5_Witness ==
    /\ Succeeded("batchCreate")
    /\ last.beforeCount = 0
    /\ Len(last.data) = 2
    /\ DistinctIds(last.ids)

\* C6 as stated: right after sync the store holds exactly the synced elements
\* (same count, same ids), each with version 1 (stated here on the lists whose
\* elements all carry an id).
C6_SyncReplacesStore_AnyList ==
    (Succeeded("sync") /\ AllCarryIds(last.data)) =>
        /\ size = Len(last.data)
        /\ DOMAIN elements = Range(last.ids)
        /\ \A i \in 1..Len(last.data) :
              TruthyString(last.data[i], "id") => MapHas(elements, last.data[i]["id"])
        /\ \A k \in DOMAIN elements :
              elements[k]["version"] = 1 /\ elements[k]["id"] = k

\* C6 amended: the same, for the element lists whose elements are stored
\* under pairwise distinct ids.
C6_SyncReplacesStore ==
    (Succeeded("sync") /\ DistinctIds(last.ids)) =>
        /\ size = Len(last.data)
        /\ DOMAIN elements = Range(last.ids)
        /\ \A i \in 1..Len(last.data) :
              TruthyString(last.data[i], "id") => MapHas(elements, last.data[i]["id"])
        /\ \A k \in DOMAIN elements :
              elements[k]["version"] = 1 /\ elements[k]["id"] = k

\* C6 witness: a sync of two elements over a store that held something
C6_Witness ==
    /\ Succeeded("sync")
    /\ DistinctIds(last.ids)
    /\ Len(last.data) = 2
    /\ last.beforeCount > 0
    /\ \E i \in 1..2 : Has(last.data[i], "version") /\ last.data[i]["version"] # 1

\* C7: a sync call emits exactly one elements_synced message, and the count it
\* carries and returns is the number of elements the store then holds (stated
\* here on the lists whose elements all carry an id).
C7_SyncCountIsStoreSize ==
    (Succeeded("sync") /\ AllCarryIds(last.data)) =>
        /\ Len(emitted) = 1
        /\ emitted[1].type = "elements_synced"
        /\ emitted[1].count = size
        /\ last.ret.count = size

\* C8: create(x) then getById(id of the result) returns the create result,
\* field for field; a non-text element created with a text carries the label
\* and no raw text.
C8_CreateRoundTrip ==
    Succeeded("create") =>
        /\ has(last.ret["id"])
        /\ getById(last.ret["id"]) = last.ret
        /\ (last.data["type"] # "text" /\ TruthyString(last.data, "text")) =>
              /\ Has(last.ret, "label")
              /\ last.ret["label"] = [text |-> last.data["text"]]
              /\ ~Has(last.ret, "text")

\* C9: no stored element of a non-text type carries both a raw text and a
\* label.
C9_NoTextAndLabel ==
    \A k \in DOMAIN elements :
        elements[k]["type"] # "text" =>
            ~(Has(elements[k], "text") /\ Has(elements[k], "label"))

\* the fields in which two objects differ
Differing(old, new) ==
    {f \in (DOMAIN old) \cup (DOMAIN new) :
        ~(Has(old, f) /\ Has(new, f) /\ old[f] = new[f])}

\* an accepted update, touching neither text nor type, of a text element that
\* create stored with a text
TextElementUpdate ==
    /\ last'.op = "update"
    /\ last'.err = ""
    /\ elements[last'.id]["type"] = "text"
    /\ Has(elements[last'.id], "text")
    /\ Has(elements[last'.id], "createdAt")
    /\ ~Has(last'.data, "text")
    /\ ~Has(last'.data, "type")

\* a create of a text element with a text
TextElementCreate ==
    /\ last'.op = "create"
    /\ last'.data["type"] = "text"
    /\ Has(last'.data, "text")

\* create stores a text element with its raw text, and with a label only if
\* the caller gave one
TextElementCreated ==
    LET new == elements'[last'.id]
    IN  /\ Has(new, "text")
        /\ new["text"] = last'.data["text"]
        /\ (Has(new, "label") => Has(last'.data, "label"))

\* C10 as stated: a text element is stored with its raw text and no label of
\* the store's, and such an update leaves the text as it was, adds no label,
\* and changes only the updated fields and the version.
C10_TextElementKeepsText_OnlyVersion ==
    [][/\ TextElementCreate => TextElementCreated
       /\ TextElementUpdate =>
          LET old == elements[last'.id]
              new == elements'[last'.id]
          IN  /\ Has(new, "text")
              /\ new["text"] = old["text"]
              /\ (Has(new, "label") => Has(old, "label") \/ Has(last'.data, "label"))
              /\ Differing(old, new) \subseteq (DOMAIN last'.data) \cup {"version"}
              /\ new["version"] = old["version"] + 1]_vars

\* C10 amended: a text element is stored with its raw text and no label of the
\* store's, and such an update leaves the text as it was, adds no label, and
\* changes only the updated fields, the version and the update timestamp.
C10_TextElementKeepsText ==
    [][/\ TextElementCreate => TextElementCreated
       /\ TextElementUpdate =>
          LET old == elements[last'.id]
              new == elements'[last'.id]
          IN  /\ Has(new, "text")
              /\ new["text"] = old["text"]
              /\ (Has(new, "label") => Has(old, "label") \/ Has(last'.data, "label"))
              /\ Differing(old, new) \subseteq
                     (DOMAIN last'.data) \cup {"version", "updatedAt"}
              /\ new["version"] = old["version"] + 1]_vars

\* C10 witness: a text element created with text "hi", after two updates of x
\* alone, the second one at a later clock reading than the create
C10_Witness ==
    /\ Succeeded("update")
    /\ DOMAIN last.data = {"x"}
    /\ elements[last.id]["type"] = "text"
    /\ Has(elements[last.id], "text")
    /\ elements[last.id]["text"] = "hi"
    /\ ~Has(elements[last.id], "label")
    /\ elements[last.id]["x"] = 10
    /\ elements[last.id]["version"] = 3
    /\ Has(elements[last.id], "createdAt")
    /\ elements[last.id]["updatedAt"] > elements[last.id]["createdAt"]

\* C11: when the caller omits the stroke colour and the background colour,
\* the record create stores and returns carries a stroke colour and a
\* background colour, beside the caller's width and height and version 1.
C11_CreateAppliesDefaults ==
    (/\ Succeeded("create")
     /\ ~Has(last.data, "strokeColor")
     /\ ~Has(last.data, "backgroundColor")) =>
        /\ Has(last.ret, "strokeColor")
        /\ Has(last.ret, "backgroundColor")
        /\ last.ret["width"] = last.data["width"]
        /\ last.ret["height"] = last.data["height"]
        /\ last.ret["version"] = 1
        /\ elements[last.id] = last.ret

\* the stored elements a query asks for: the type, when the query has one for
\* which given(q) holds, and every entry of the filters
Asked(q, given) ==
    {k \in DOMAIN elements :
        /\ given => (Has(elements[k], "type") /\ elements[k]["type"] = q["type"])
        /\ Has(q, "filters") =>
              \A f \in DOMAIN q["filters"] :
                  Has(elements[k], f) /\ elements[k][f] = q["filters"][f]}

\* C17 as stated: query returns exactly the stored elements whose type is the
\* type filter, when one is given (the empty string included), and whose
\* fields equal every filter value; it changes no record and emits nothing.
C17_QueryReturnsMatches_AnyType ==
    [][last'.op = "query" =>
          /\ last'.ret = BagOfValues(elements, Asked(last'.data, Has(last'.data, "type")))
          /\ elements' = elements
          /\ emitted' = <<>>
          /\ calls' = <<>>]_vars

\* C17 amended: the same, the type filter counting as given when it is a
\* non-empty string.
C17_QueryReturnsMatches ==
    [][last'.op = "query" =>
          /\ last'.ret = BagOfValues(elements,
                             Asked(last'.data, Has(last'.data, "type")
                                               /\ last'.data["type"] # ""))
          /\ elements' = elements
          /\ emitted' = <<>>
          /\ calls' = <<>>]_vars

\* C17 witness: a query by type and two fields that returns one of three
\* stored elements
C17_Witness ==
    /\ last.op = "query"
    /\ Has(last.data, "type") /\ last.data["type"] = "rectangle"
    /\ Has(last.data, "filters")
    /\ DOMAIN last.data["filters"] = {"strokeColor", "width"}
    /\ size = 3
    /\ BagCardinality(last.ret) = 1

\* the version of the element under k stays equal or grows by exactly 1
VersionStep(k) ==
    \/ elements'[k]["version"] = elements[k]["version"]
    \/ elements'[k]["version"] = elements[k]["version"] + 1

\* C12 as stated: across any single operation other than sync and load, the
\* version of the element stored under an id stays equal or grows by 1.
C12_VersionNeverReset_AnyOp ==
    [][last'.op \notin {"sync", "load"} =>
          \A k \in (DOMAIN elements) \cap (DOMAIN elements') : VersionStep(k)]_vars

\* C12 amended: the same across any single operation other than sync, load
\* and a create or batchCreate that writes that id; such a create stores a
\* new record with version 1 under the id.
C12_VersionNeverReset ==
    [][last'.op \notin {"sync", "load"} =>
          \A k \in (DOMAIN elements) \cap (DOMAIN elements') :
              IF last'.op \in {"create", "batchCreate"} /\ k \in Range(last'.ids)
              THEN elements'[k]["version"] = 1
              ELSE VersionStep(k)]_vars

\* C12 witness: an update that took an element from version 2 to 3 beside
\* another element that kept its version
C12_Witness ==
    /\ Succeeded("update")
    /\ elements[last.id]["version"] = 3
    /\ \E k \in DOMAIN elements : k # last.id /\ elements[k]["version"] = 2

\* the last item of a batch that is stored under k
LastIndex(ids, k) ==
    CHOOSE i \in DOMAIN ids : ids[i] = k /\ \A j \in DOMAIN ids : ids[j] = k => j <= i

\* the items of the call that carry an id the store held before the call
OnExisting(items) ==
    {i \in DOMAIN items :
        TruthyString(items[i], "id") /\ MapHas(elements, items[i]["id"])}

\* C13: create or batchCreate with an id the store already holds does not
\* fail; the new record (the one of the last item with that id) replaces the
\* old one, the id stays stored once, and the created event is emitted.
C13_CreateOverwrites ==
    [][/\ (last'.op = "create" /\ OnExisting(<<last'.data>>) # {}) =>
            /\ last'.err = ""
            /\ last'.ret["id"] = last'.data["id"]
            /\ last'.ret["version"] = 1
            /\ last'.ret["createdAt"] = now
            /\ elements'[last'.data["id"]] = last'.ret
            /\ DOMAIN elements' = DOMAIN elements
            /\ emitted' = <<[type |-> "element_created", element |-> last'.ret]>>
       /\ (last'.op = "batchCreate" /\ OnExisting(last'.data) # {}) =>
            /\ last'.err = ""
            /\ Len(last'.ret) = Len(last'.data)
            /\ \A i \in OnExisting(last'.data) :
                  LET k == last'.data[i]["id"]
                      new == last'.ret[LastIndex(last'.ids, k)]
                  IN  /\ new["id"] = k
                      /\ new["version"] = 1
                      /\ new["createdAt"] = now
                      /\ elements'[k] = new
            /\ DOMAIN elements' = (DOMAIN elements) \cup Range(last'.ids)
            /\ emitted' = <<[type |-> "elements_batch_created",
                             elements |-> last'.ret]>>]_vars

\* C13 witness: a create with the caller's id "a" and a version of the
\* caller's on a store of two elements that still holds two elements, the one
\* under "a" being the returned record
C13_Witness ==
    /\ Succeeded("create")
    /\ TruthyString(last.data, "id")
    /\ Has(last.data, "version")
    /\ last.beforeCount = 2
    /\ size = 2
    /\ elements[last.data["id"]] = last.ret
    /\ Len(emitted) = 1

\* C14: delete(id) on a stored id removes that record and no other, leaves
\* every other record and the groups of the scene state as they were, and
\* emits exactly one element_deleted carrying the id.
C14_DeleteRemovesOne ==
    [][(last'.op = "delete" /\ MapHas(elements, last'.id)) =>
          /\ last'.err = ""
          /\ DOMAIN elements' = (DOMAIN elements) \ {last'.id}
          /\ \A k \in DOMAIN elements' : elements'[k] = elements[k]
          /\ groups' = groups
          /\ emitted' = <<[type |-> "element_deleted", elementId |-> last'.id]>>]_vars

\* C14 witness: the delete of a member of a group, which the group still
\* lists, from a store that keeps another element
C14_Witness ==
    /\ Succeeded("delete")
    /\ size = 1
    /\ \E g \in DOMAIN groups : last.id \in Range(groups[g])
    /\ \E k \in DOMAIN elements : groupIdsOf(elements[k]) # <<>>

\* the items of a batchDelete list that fail: the store does not hold the id,
\* or an earlier item of the list has removed it
FailingItems(ids) ==
    {i \in DOMAIN ids :
        ~MapHas(elements, ids[i]) \/ \E j \in DOMAIN ids : j < i /\ ids[j] = ids[i]}

C18_EveryListenerInvokedOnce ==
    /\ Len(calls) = Len(emitted) * Len(listeners)
    /\ \A m \in 1..Len(emitted) : \A i \in 1..Len(listeners) :
          /\ calls[(m - 1) * Len(listeners) + i].listener = listeners[i]
          /\ calls[(m - 1) * Len(listeners) + i].message = emitted[m]

\* the types of the messages a mutation of the store emits
MutationTypes ==
    {"element_created", "element_updated", "element_deleted",
     "elements_batch_created", "elements_synced"}

\* C19: the handler of a new connection sends that viewer exactly two
\* messages, the first the viewer gets: initial_elements with all the
\* elements the store holds, then sync_status with the number of elements.
C19_ConnectionSendsSnapshotThenStatus ==
    [][\A v \in Viewers :
          /\ readyState[v] = "NONE" => sent[v] = <<>>
          /\ (readyState[v] = "NONE" /\ readyState'[v] # "NONE") =>
                /\ Len(sent'[v]) = 2
                /\ sent'[v][1].json.type = "initial_elements"
                /\ sent'[v][1].json.elements = BagOfValues(elements', DOMAIN elements')
                /\ sent'[v][2].json.type = "sync_status"
                /\ sent'[v][2].json.elementCount = Cardinality(DOMAIN elements')]_vars

\* C19 witness: a viewer that has just connected to a store holding an
\* element, beside a viewer that connected earlier
C19_Witness ==
    /\ last.op = "connection"
    /\ Len(sent[last.id]) = 2
    /\ sent[last.id][2].json.elementCount = 1
    /\ \E v \in Viewers : v # last.id /\ Len(sent[v]) = 3

\* C20: whatever the interleaving of connections and mutations, a viewer gets
\* no mutation message before it has got its initial_elements.
C20_SnapshotBeforeEvents ==
    \A v \in Viewers : \A i \in 1..Len(sent[v]) :
        sent[v][i].json.type \in MutationTypes =>
            \E j \in 1..(i - 1) : sent[v][j].json.type = "initial_elements"

\* C20 witness: a viewer that connected between two mutations and has got the
\* snapshot of the first and then the message of the second
C20_Witness ==
    \E v \in Viewers :
        /\ Len(sent[v]) = 3
        /\ sent[v][1].json.type = "initial_elements"
        /\ sent[v][1].json.elements # EmptyBag
        /\ sent[v][3].json.type \in MutationTypes

----------------------------------------------------------------------------
\* the messages msgs as the texts broadcast() hands to send(), in order
Pushed(msgs) == [i \in 1..Len(msgs) |-> stringify(msgs[i])]

\* the viewer connection v is tracked and ready to receive
IsOpen(v) == v \in clients /\ readyState[v] = "OPEN"

\* C21: every step is one whole call of the store, and for a viewer that is
\* open before and after it, what the viewer had been sent stays as it was
\* and the events the store accepted in the step follow it in the order the
\* store emitted them: a viewer's pushes are in the order of acceptance.
C21_PushOrderIsAcceptanceOrder ==
    [][\A v \in Viewers :
          (IsOpen(v) /\ readyState'[v] = "OPEN")
              => sent'[v] = sent[v] \o Pushed(emitted')]_vars

\* an open viewer was sent, after its snapshot and status, the creation of an
\* element and then its deletion, two mutations accepted in that order
C21_Witness ==
    \E v \in Viewers :
        /\ IsOpen(v)
        /\ Len(sent[v]) = 4
        /\ sent[v][3].json.type = "element_created"
        /\ sent[v][4].json.type = "element_deleted"
        /\ last.op = "delete"
\* what the step added to the log of the viewer v
NewlySent(v) == SubSeq(sent'[v], Len(sent[v]) + 1, Len(sent'[v]))

\* C22: a call of the store that emits events hands each of them once to every
\* viewer connection that is tracked and OPEN, hands nothing to a connection
\* that is closing, closed or has had an error, and returns normally: the
\* viewers that are skipped do not make it fail.
C22_PushedToOpenViewersOnly ==
    [][emitted' # <<>> =>
          /\ \A v \in Viewers :
                IF IsOpen(v)
                THEN /\ Len(sent'[v]) = Len(sent[v]) + Len(emitted')
                     /\ BagOfSeq(NewlySent(v)) = BagOfSeq(Pushed(emitted'))
                ELSE sent'[v] = sent[v]
          /\ last'.err = ""]_vars

\* an element was created while one viewer was open, which was sent the event,
\* and another had had an error after its connection, which was sent nothing
C22_Witness ==
    \E v, w \in Viewers :
        /\ last.op = "create" /\ last.err = ""
        /\ IsOpen(v)
        /\ sent[v][Len(sent[v])] = stringify(emitted[1])
        /\ w \notin clients /\ readyState[w] = "CLOSING"
        /\ Len(sent[w]) = 2
\* C23: when a listener throws while create, update, delete, batchCreate or
\* sync notifies it, the store holds what the call wrote: the created record
\* under its id, the updated record with its next version, no record under
\* the deleted id, a record under every id of the batch, exactly the synced
\* ids.
C23_MutationSurvivesListenerFailure ==
    [][last'.err = ListenerError =>
          /\ last'.op = "create" =>
                /\ MapHas(elements', last'.id)
                /\ elements'[last'.id] =
                      convertTextToLabel(createElement(last'.data, last'.id, now))
          /\ last'.op = "update" =>
                /\ MapHas(elements', last'.id)
                /\ elements'[last'.id].version = versionOrZero(elements[last'.id]) + 1
                /\ \A k \in DOMAIN last'.data :
                      elements'[last'.id][k] = last'.data[k]
          /\ last'.op = "delete" =>
                /\ MapHas(elements, last'.id)
                /\ ~MapHas(elements', last'.id)
          /\ last'.op = "batchCreate" =>
                DOMAIN elements' = DOMAIN elements \cup Range(last'.ids)
          /\ last'.op = "sync" =>
                DOMAIN elements' = Range(last'.ids)]_vars

\* the listener "bad" threw during the update of an element, and the store
\* holds the element with the updated field and version 2
C23_Witness ==
    /\ last.op = "update" /\ last.err = ListenerError
    /\ \E i \in 1..Len(calls) : calls[i].listener = "bad"
    /\ MapHas(elements, last.id)
    /\ elements[last.id].x = 1
    /\ elements[last.id].version = 2
\* C24: when a registered listener throws during a call that emits events,
\* the call still returns its result to the caller (no error is raised into
\* it) and every registered listener is called with every event.
C24_FailingListenerIsolated ==
    (emitted # <<>> /\ \E i \in 1..Len(listeners) : ListenerThrows(listeners[i]))
        => /\ last.err = ""
           /\ \A i \in 1..Len(listeners), j \in 1..Len(emitted) :
                 \E n \in 1..Len(calls) :
                    calls[n] = [listener |-> listeners[i], message |-> emitted[j]]
\* C25: a request that fails validation leaves the collection as it was and
\* emits no event, whichever route or tool it came through.
C25_ValidationFailureChangesNothing ==
    [][last'.err = ValidationError =>
          /\ elements' = elements
          /\ emitted' = <<>>]_vars
\* the errors a tool call fails with: the tool is unknown, its arguments do
\* not pass the schema, the store reports NotFound, no element was found
ToolFailures ==
    {UnknownToolError("no_such_tool"), ValidationError, IdRequired, NotFound("a"),
     NotFound("zz"), NoneGrouped, GroupNotFound("g"), NoneLocked(TRUE), NoneLocked(FALSE)}

\* C26: a tool call that fails is answered with a result marked isError whose
\* text carries the message of the failure, and nothing is thrown out of the
\* handler.
C26_FailingToolReturnsError ==
    (last.op # "init" /\ last.err # "")
        => /\ last.err \in ToolFailures
           /\ callToolResult(last).isError
           /\ ~callToolResult(last).thrown
           /\ callToolResult(last).text = "Error: " \o last.err

\* lock_elements was called with ids of which the store holds none, after an
\* unknown tool could have been called: the answer is the marked error
C26_Witness ==
    /\ last.op = "lock_elements"
    /\ last.err = NoneLocked(TRUE)
    /\ MapSize(elements) = 1
    /\ callToolResult(last).isError
\* C27: clear() leaves the collection empty and calls no listener with any
\* event, and no viewer is sent anything by it.
C27_ClearEmitsNothing ==
    [][last'.op = "clear" =>
          /\ elements' = EmptyMap
          /\ emitted' = <<>>
          /\ calls' = <<>>
          /\ sent' = sent]_vars

\* a store that held an element was cleared while a listener was registered
\* next to the broadcaster and a viewer was open, whose log still ends with
\* its snapshot and status
C27_Witness ==
    /\ last.op = "clear"
    /\ last.beforeCount = 1
    /\ elements = EmptyMap
    /\ listeners = <<"broadcast", "f">>
    /\ \E v \in Viewers : IsOpen(v) /\ Len(sent[v]) = 2
\* closeWebSocket() has resolved
Resolved == proc \in {"httpClose", Exited(0)}

\* C28: closeWebSocket() leaves no tracked viewer connection open and clears
\* the set while the server is still there, it resolves in the step in which
\* the server has closed, and from then on no viewer connection is tracked or
\* open.
C28_ShutdownClosesViewersThenServer ==
    [][/\ (proc = "running" /\ proc' = "closeWebSocket") =>
             /\ \A v \in Viewers : readyState'[v] # "OPEN"
             /\ clients' = {}
             /\ wss'
       /\ (proc' = "closeWebSocket") => wss'
       /\ Resolved' =>
             /\ ~wss'
             /\ clients' = {}
             /\ \A v \in Viewers : readyState'[v] # "OPEN"]_vars

\* closeWebSocket() has resolved after it closed a viewer that was open, and
\* that viewer's close event has been handled
C28_Witness ==
    /\ proc = "httpClose"
    /\ ~wss
    /\ \E v \in Viewers : readyState[v] = "CLOSED" /\ Len(sent[v]) = 2
    /\ \E v \in Viewers : readyState[v] = "CLOSING"
\* the calls of onActivity(): a viewer connects or sends a message, an HTTP
\* request, a tool call
ActivityOps == {"connection", "message", "GET /health", "no_such_tool"}

\* the process goes from one state to the next and to exit(0) only
ProcStates == {"running", "closeWebSocket", "httpClose", Exited(0)}

\* once activity has ceased for good, the process exits with code 0
IdleExits == <>[][last'.op \notin ActivityOps]_vars => <>(proc = Exited(0))

\* C29 as stated: the process exits with code 0 once activity has ceased,
\* and when it exits, no activity at all was observed during the full period
\* before.
C29_IdleShutdown_AnyActivity ==
    /\ [](proc \in ProcStates)
    /\ [](proc = Exited(0) => idle = INACTIVITY_TIMEOUT_MS)
    /\ IdleExits

\* C29, amended: the process exits with code 0 once activity has ceased, and
\* shutdown begins, by the timer, only when no activity was observed during
\* the full period before; activity observed once shutdown has begun does
\* not stop it.
C29_IdleShutdown ==
    /\ [](proc \in ProcStates)
    /\ [][(proc = "running" /\ proc' # "running") =>
             /\ idle = INACTIVITY_TIMEOUT_MS
             /\ last'.op = "timeout"]_vars
    /\ IdleExits

\* a viewer connected, then nothing was observed for a full period, and the
\* process has exited with code 0
C29_Witness ==
    /\ proc = Exited(0)
    /\ idle = INACTIVITY_TIMEOUT_MS
    /\ \E v \in Viewers : readyState[v] = "CLOSED" /\ Len(sent[v]) = 2
\* C30: the handler of each message, close and error event of a viewer
\* connection calls onActivity(): after it the inactivity timer is pending
\* with the full period ahead.
C30_ViewerEventsResetTimer ==
    [][last'.op \in {"message", "close", "error"} =>
          /\ idle' = 0
          /\ inactivityTimer' \in DOMAIN timeouts'
          /\ timeouts'[inactivityTimer'] = INACTIVITY_TIMEOUT_MS]_vars
\* every connection of the HTTP server has ended
Drained == \A v \in Viewers : readyState[v] \in {"NONE", "CLOSED"}

\* C31: shutdown, begun by a termination signal or by the idle timer, closes
\* the viewer connections and then the WebSocket server, then the HTTP server,
\* then exits with code 0: the process leaves each position for the next one
\* only, and it has not exited while the WebSocket server is there or a
\* connection of the HTTP server is open.
C31_ShutdownOrder ==
    [][/\ (proc = "running" /\ proc' # "running") =>
             /\ last'.op \in {"signal", "timeout"}
             /\ proc' = "closeWebSocket"
             /\ clients' = {}
             /\ \A v \in Viewers : readyState'[v] # "OPEN"
       /\ (proc = "closeWebSocket" /\ proc' # "closeWebSocket") =>
             /\ proc' = "httpClose"
             /\ ~wss'
       /\ (proc = "httpClose" /\ proc' # "httpClose") =>
             /\ proc' = Exited(0)
             /\ ~wss'
             /\ Drained'
       /\ proc # Exited(0)]_vars

\* a signal reached the process while a viewer was connected and before any
\* time had passed, and the process has exited
C31_Witness ==
    /\ proc = Exited(0)
    /\ idle = 0
    /\ ~wss
    /\ \E v \in Viewers : readyState[v] = "CLOSED" /\ Len(sent[v]) = 2
\* C32: ungroup_elements with a group identifier the groups map does not hold
\* is answered with the error "Group <id> not found", and the call changes no
\* element, no version, not the groups map, and emits no event.
C32_UngroupUnknownGroup ==
    [][(last'.op = "ungroup_elements" /\ ~MapHas(groups, last'.id)) =>
          /\ last'.err = GroupNotFound(last'.id)
          /\ callToolResult(last').isError
          /\ callToolResult(last').text = "Error: " \o GroupNotFound(last'.id)
          /\ elements' = elements
          /\ nUpdates' = nUpdates
          /\ groups' = groups
          /\ emitted' = <<>>]_vars

\* ungroup_elements failed for a group that is not there while another group
\* with a member in the store is
C32_Witness ==
    /\ last.op = "ungroup_elements"
    /\ last.err = GroupNotFound(last.id)
    /\ MapSize(groups) = 1
    /\ \E k \in DOMAIN elements :
          Has(elements[k], "groupIds") /\ Len(elements[k]["groupIds"]) = 1
\* C33: every record of the store carries an id field equal to the key it is
\* stored and looked up under, whatever ids the inputs of create, batchCreate,
\* update and sync carried.
C33_IdIsKey ==
    \A k \in DOMAIN elements : Has(elements[k], "id") /\ elements[k]["id"] = k
\* the elements of a snapshot, each under its id
ReplicaOfSnapshot(bag) ==
    [k \in {e["id"] : e \in BagToSet(bag)} |->
        CHOOSE e \in BagToSet(bag) : e["id"] = k]

\* what a viewer holds after the message m: add or replace on element_created
\* and elements_batch_created, replace on element_updated, remove on
\* element_deleted, the snapshot on initial_elements
ReplicaApply(rep, m) ==
    IF m.type = "initial_elements" THEN ReplicaOfSnapshot(m.elements)
    ELSE IF m.type \in {"element_created", "element_updated"}
    THEN MapSet(rep, m.element["id"], m.element)
    ELSE IF m.type = "elements_batch_created"
    THEN SetAll(rep, [i \in 1..Len(m.elements) |-> m.elements[i]["id"]], m.elements, 1)
    ELSE IF m.type = "element_deleted" THEN MapDelete(rep, m.elementId)
    ELSE rep

\* the replica of a viewer that applied the first n messages of log
RECURSIVE Replica(_, _)
Replica(log, n) ==
    IF n = 0 THEN EmptyMap ELSE ReplicaApply(Replica(log, n - 1), log[n].json)

\* C34: a viewer that is open, started from its snapshot and applied every
\* message it was sent holds exactly the elements the store holds, after any
\* sequence of create, update, delete, batch create, sync, load and clear.
C34_ReplicaMatchesStore ==
    \A v \in Viewers :
        IsOpen(v) => Range(Replica(sent[v], Len(sent[v]))) = Range(elements)
\* C35: a viewer that connects is sent, as the first it gets, the snapshot of
\* what the store holds after every mutation accepted so far, and none of
\* their events; from then on, while it stays open, each step adds to what it
\* was sent exactly the events the store emitted in that step, each once and
\* in order.  Connecting is one step: no mutation falls between the snapshot
\* and the registration of the viewer.
C35_SnapshotOrEventExactlyOnce ==
    [][\A v \in Viewers :
          /\ (readyState[v] = "NONE" /\ readyState'[v] = "NONE") => sent'[v] = <<>>
          /\ (readyState[v] = "NONE" /\ readyState'[v] # "NONE") =>
                /\ IsOpen(v)'
                /\ elements' = elements
                /\ emitted' = <<>>
                /\ Len(sent'[v]) = 2
                /\ sent'[v][1] = stringify([type |-> "initial_elements",
                                            elements |-> BagOfValues(elements,
                                                                     DOMAIN elements)])
                /\ sent'[v][2].json.type = "sync_status"
          /\ (IsOpen(v) /\ IsOpen(v)') =>
                /\ Len(sent'[v]) = Len(sent[v]) + Len(emitted')
                /\ SubSeq(sent'[v], 1, Len(sent[v])) = sent[v]
                /\ NewlySent(v) = Pushed(emitted')]_vars

\* an element was created and then deleted: a viewer that connected before
\* both was sent the two events, a viewer that connected between them was
\* sent the element in its snapshot and the second event alone
C35_Witness ==
    \E v, w \in Viewers :
        /\ IsOpen(v) /\ IsOpen(w)
        /\ last.op = "delete" /\ last.err = ""
        /\ Len(sent[v]) = 3
        /\ sent[v][1].json.elements # EmptyBag
        /\ sent[v][3].json.type = "element_deleted"
        /\ Len(sent[w]) = 4
        /\ sent[w][1].json.elements = EmptyBag
        /\ sent[w][3].json.type = "element_created"
        /\ sent[w][4] = sent[v][3]
\* C38: a create whose input carries no id, and a batchCreate whose items
\* carry none, store each record under a generated id the store did not hold
\* (nor an earlier item of the batch): every record the store held stays as it
\* was, and the store grows by one element per item.
C38_GeneratedIdIsFresh ==
    [][/\ (last'.op = "create" /\ last'.err = "" /\ ~Has(last'.data, "id")) =>
             /\ ~MapHas(elements, last'.id)
             /\ \A k \in DOMAIN elements : MapHas(elements', k) /\ elements'[k] = elements[k]
             /\ MapSize(elements') = MapSize(elements) + 1
       /\ (/\ last'.op = "batchCreate" /\ last'.err = ""
           /\ \A i \in DOMAIN last'.data : ~Has(last'.data[i], "id")) =>
             /\ \A i \in DOMAIN last'.ids : ~MapHas(elements, last'.ids[i])
             /\ \A k \in DOMAIN elements : MapHas(elements', k) /\ elements'[k] = elements[k]
             /\ MapSize(elements') = MapSize(elements) + Len(last'.data)]_vars
\* C36: group_elements with a list of ids of which the store holds none is
\* answered with an error and leaves the groups map, the elements and their
\* versions as they were, and emits no event.
C36_GroupOfNothingLeavesNoTrace ==
    [][(/\ last'.op = "group_elements"
        /\ \A i \in DOMAIN last'.data : ~MapHas(elements, last'.data[i])) =>
          /\ last'.err = NoneGrouped
          /\ callToolResult(last').isError
          /\ groups' = groups
          /\ elements' = elements
          /\ nUpdates' = nUpdates
          /\ emitted' = <<>>]_vars
\* the times the id k occurs in the list ids
Occurrences(ids, k) == Cardinality({i \in DOMAIN ids : ids[i] = k})

\* the groupIds (absent read as empty) of the member k before the
\* group_elements call that has just ended, which appended its group id once
\* for each occurrence of k in its list
GroupIdsBefore(k) ==
    SubSeq(groupIdsOf(elements[k]), 1,
           Len(groupIdsOf(elements[k])) - Occurrences(last.data, k))

\* C37: ungroup_elements with the group id a group_elements call on existing
\* elements has just returned succeeds, leaves each member with the groupIds it
\* had before the grouping, removes the group from the groups map, and
\* changes no other element.
C37_GroupUngroupRoundTrip ==
    [][(/\ last.op = "group_elements" /\ last.err = ""
        /\ Len(last.ids) = Len(last.data)
        /\ last'.op = "ungroup_elements" /\ last'.id = last.id) =>
          /\ last'.err = ""
          /\ ~MapHas(groups', last.id)
          /\ DOMAIN elements' = DOMAIN elements
          /\ \A k \in DOMAIN elements :
                IF k \in Range(last.data)
                THEN groupIdsOf(elements'[k]) = GroupIdsBefore(k)
                ELSE elements'[k] = elements[k]]_vars
\* C39: at most one timeout is pending at any time, and it is the one
\* index.ts holds in inactivityTimer; after each activity (an HTTP request, a
\* viewer's connection or message, a tool call) exactly one is pending, with
\* the full period ahead, and after a call of shutdown() none is.
C39_AtMostOneInactivityTimer ==
    /\ [](Cardinality(DOMAIN timeouts) <= 1 /\ DOMAIN timeouts \subseteq {inactivityTimer})
    /\ [][/\ last'.op \in ActivityOps =>
                /\ DOMAIN timeouts' = {inactivityTimer'}
                /\ timeouts'[inactivityTimer'] = INACTIVITY_TIMEOUT_MS
          /\ last'.op \in {"signal", "timeout"} => timeouts' = NoTimeouts]_vars

\* shutdown() has cancelled the timer and is awaiting, an HTTP request has
\* armed a new one, and time has passed since
C39_Witness ==
    /\ proc \in {"closeWebSocket", "httpClose"}
    /\ last.op = "elapse"
    /\ idle = 1
    /\ DOMAIN timeouts = {inactivityTimer}
    /\ timeouts[inactivityTimer] = INACTIVITY_TIMEOUT_MS - 1
\* C40: invoking the handle onChange returned for a listener takes that
\* listener, and no other, out of the registered ones; from then on no event
\* is handed to it (only registered listeners are called), while every
\* listener that is registered is called with every event the store emits.
C40_UnsubscribedListenerOnly ==
    /\ [][last'.op = "unsubscribe" =>
              Range(listeners') = Range(listeners) \ {last'.id}]_vars
    /\ [](\A n \in DOMAIN calls : calls[n].listener \in Range(listeners))
    /\ [](\A l \in Range(listeners) : \A j \in DOMAIN emitted :
              \E n \in DOMAIN calls : calls[n] = [listener |-> l, message |-> emitted[j]])
====
